---- MODULE Spec2Model ----
(***************************************************************************)
(* A model of the render-state caching, command-stream and dynamic-buffer  *)
(* engine of the FNA3D Vulkan backend (src/src/FNA3D_Driver_Vulkan.c).     *)
(*                                                                         *)
(* The program state is held in four variables:                            *)
(*   renderer  the fields of FNAVulkanRenderer the engine reads and writes *)
(*   buffers   the VulkanBuffer objects and the renderer's linked list     *)
(*   gpu       the native side: objects created through the Vulkan API,    *)
(*             what is bound in the current command buffer, reads of       *)
(*             buffers by draws the GPU has not finished                   *)
(*   ev        what the last public call did (its observable events)       *)
(* A handler of the C code is an operator from a world record              *)
(* [r, b, g, e] to the world after the call; handlers call each other the  *)
(* way the C functions do.  An action applies one public entry point.      *)
(* Native calls that can fail take their outcome from the action's input   *)
(* `fail` (the name of the native call that fails, or "none").             *)
(* SDL_malloc is assumed to succeed.                                       *)
(***************************************************************************)
EXTENDS Integers, Sequences, FiniteSets, TLC

VARIABLES renderer, buffers, gpu, ev

vars == <<renderer, buffers, gpu, ev>>

(***************************************************************************)
(* Bounds of the model                                                     *)
(***************************************************************************)
\* native-call failures injected in one behaviour
MaxNativeFailures == 1
\* pipelines created in one behaviour
MaxPipelines == 3
\* VulkanBuffer objects created in one behaviour
MaxBuffers == 2
\* bytes of a buffer's storage the model tracks
MaxBytes == 20
\* command buffers begun between two resets of commandBufferCount
MaxCommandBuffers == 2
\* public calls made in one behaviour
MaxCalls == 5
\* API calls per behaviour where render targets are switched across frames
MaxPassCalls == 6
\* fragment and vertex sampler slots, vertex buffer bindings and swapchain
\* images, scaled down
MAX_TEXTURE_SAMPLERS == 2
MAX_VERTEXTEXTURE_SAMPLERS == 1
MAX_BOUND_VERTEX_BUFFERS == 1
SwapChainImageCount == 2

(***************************************************************************)
(* Program constants                                                       *)
(***************************************************************************)
\* sizeof(VkDeviceSize): the operand type of both sizeof expressions in
\* CreateBackingBuffer
SizeofVkDeviceSize == 8
\* memset('\0') values of the enums
FNA3D_DEPTHFORMAT_NONE == 0
FNA3D_SETDATAOPTIONS_NONE == 0
FNA3D_SETDATAOPTIONS_DISCARD == 1
\* the tag of a write made by SetUserBufferData, which takes no options
UserBufferAppend == 2

NULL == 0
\* the value of an array element SDL_malloc returned and nothing has written
Uninit == -1
\* &NullTexture
NullTexture == 0
\* the address of the VkSampler local of VULKAN_VerifySampler, which the
\* handler stores into renderer->samplers and which dangles after its return
LocalSampler == 1
\* the sampler parameters CreateTexture gives a texture
DefaultSamplerState == 0

MAX_TOTAL_SAMPLERS == MAX_TEXTURE_SAMPLERS + MAX_VERTEXTEXTURE_SAMPLERS
TextureCount == MAX_TOTAL_SAMPLERS * SwapChainImageCount
Textures == {1}

Max(a, b) == IF a > b THEN a ELSE b

(***************************************************************************)
(* Input domains                                                           *)
(***************************************************************************)
DepthFormats == {FNA3D_DEPTHFORMAT_NONE, 1}
PrimitiveTypes == {0, 1}
CullModes == {0, 1}
FillModes == {0}
MultiSampleValues == {0, 1}
Viewports == {0, 1}
RasterizerStates ==
    {rs \in [cullMode : CullModes, fillMode : FillModes,
             multiSampleAntiAlias : MultiSampleValues] :
        rs.cullMode = 0 \/ rs.multiSampleAntiAlias = 0}
SamplerStates == {DefaultSamplerState, 1}
SamplerIndices == 0..(MAX_TOTAL_SAMPLERS - 1)
TextureArguments == {NULL} \cup Textures
UniformBuffers ==
    {[vUniform |-> 1, vOff |-> 0, fUniform |-> 2, fOff |-> 0]}
BufferSizes == {4, 10}
DataLengths == {4, 10}
ByteOffsets == {0}
SetDataOptions == {FNA3D_SETDATAOPTIONS_NONE, FNA3D_SETDATAOPTIONS_DISCARD}
ClearOptionSets == {{"TARGET"}}
FrameClearOptionSets == {{"TARGET"}, {"DEPTHBUFFER"}, {"TARGET", "DEPTHBUFFER"}}
\* the native calls a handler makes that can fail, and "none"
BeginFrameOutcomes == {"none", "vkAcquireNextImageKHR"}
BindOutcomes == {"none", "vkCreateGraphicsPipelines"}
SamplerOutcomes == {"none", "vkCreateSampler"}
PassOutcomes == BeginFrameOutcomes \cup {"vkCreateRenderPass", "vkCreateFramebuffer"}
SwapOutcomes == PassOutcomes \cup {"vkQueueSubmit", "vkQueuePresentKHR"}
StallOutcomes == {"none", "vkQueueSubmit", "vkQueueWaitIdle"}
FrameOutcomes ==
    {"none", "vkAcquireNextImageKHR", "vkAllocateCommandBuffers",
     "vkBeginCommandBuffer", "vkQueueSubmit", "vkQueuePresentKHR"}
\* what a build does at an invalid memory access
UBOutcomes == {"trap", "garbage"}

(***************************************************************************)
(* stb_ds hash maps: a map is a set of [key, value] entries                *)
(***************************************************************************)
HmHas_Miss(m, k) == FALSE
HmHas(m, k) == \E p \in m : p.key = k
HmGet(m, k) == (CHOOSE p \in m : p.key = k).value
HmPut(m, k, v) == {p \in m : p.key # k} \cup {[key |-> k, value |-> v]}

(***************************************************************************)
(* StateHasher (FNA3D_PipelineCache.c), as the specification describes it:  *)
(* deterministic and collision-free over the modelled state values         *)
(***************************************************************************)
GetBlendStateHash(bs) == [a |-> bs, b |-> 0]
GetDepthStencilStateHash(ds) == [a |-> ds, b |-> 0]
GetRasterizerStateHash(rs) ==
    [a |-> rs.cullMode + 4 * rs.fillMode, b |-> rs.multiSampleAntiAlias]
GetSamplerStateHash(ss) == [a |-> ss, b |-> 0]


(***************************************************************************)
(* State after VULKAN_CreateDevice                                         *)
(***************************************************************************)
\* the renderer is memset to zero, then the fields below are assigned
InitRenderer(depthStencilFormat) ==
    [frameInProgress |-> 0,
     renderPassInProgress |-> 0,
     needNewRenderPass |-> 1,
     pipelineBoundThisFrame |-> 0,
     shouldClearColor |-> 0,
     shouldClearDepth |-> 0,
     shouldClearStencil |-> 0,
     commandBufferCount |-> 0,
     commandBufferCapacity |-> 1,
     currentSwapChainIndex |-> 0,
     viewport |-> 0,
     renderPass |-> NULL,
     framebuffer |-> NULL,
     currentPrimitiveType |-> 0,
     blendState |-> 0,
     depthStencilState |-> 0,
     rasterizerState |-> [cullMode |-> 0, fillMode |-> 0, multiSampleAntiAlias |-> 0],
     currentDepthFormat |-> depthStencilFormat,
     fauxBackbufferDepthFormat |-> depthStencilFormat,
     colorAttachmentCount |-> 1,
     colorAttachments0 |-> "fauxBackbufferColor",
     depthStencilAttachment |->
        IF depthStencilFormat # FNA3D_DEPTHFORMAT_NONE
        THEN "fauxBackbufferDepthStencil" ELSE "NULL",
     depthStencilAttachmentActive |->
        IF depthStencilFormat # FNA3D_DEPTHFORMAT_NONE THEN 1 ELSE 0,
     pipelineHashMap |-> {},
     renderPassHashMap |-> {},
     framebufferHashMap |-> {},
     samplerStateHashMap |-> {},
     userVertexBuffer |-> NULL,
     userIndexBuffer |-> NULL,
     userVertexStride |-> 0,
     currentPipelineHash |->
        [blendState |-> [a |-> 0, b |-> 0],
         rasterizerState |-> [a |-> 0, b |-> 0],
         depthStencilState |-> [a |-> 0, b |-> 0],
         primitiveType |-> 0,
         renderPass |-> NULL],
     textures |-> [i \in 0..(TextureCount - 1) |-> Uninit],
     samplers |-> [i \in 0..(TextureCount - 1) |-> Uninit],
     textureNeedsUpdate |-> [i \in 0..(TextureCount - 1) |-> Uninit],
     samplerNeedsUpdate |-> [i \in 0..(TextureCount - 1) |-> Uninit],
     ldVertUniformBuffers |-> [k \in 0..(SwapChainImageCount - 1) |-> Uninit],
     ldVertUniformOffsets |-> [k \in 0..(SwapChainImageCount - 1) |-> Uninit],
     ldFragUniformBuffers |-> [k \in 0..(SwapChainImageCount - 1) |-> Uninit],
     ldFragUniformOffsets |-> [k \in 0..(SwapChainImageCount - 1) |-> Uninit],
     ldVertexBuffers |->
        [i \in 0..(MAX_BOUND_VERTEX_BUFFERS * SwapChainImageCount - 1) |-> Uninit],
     ldVertexBufferOffsets |->
        [i \in 0..(MAX_BOUND_VERTEX_BUFFERS * SwapChainImageCount - 1) |-> Uninit],
     textureParams |-> [texture \in Textures |-> DefaultSamplerState]]

\* a VkCommandBuffer: its lifecycle state in the Vulkan specification
\* ("unallocated": the array element was never written), whether a render
\* pass is begun in it, the first command recorded after the pass began,
\* whether it holds the blit to the swapchain image, whether it was
\* submitted with no wait and reset of renderQueueFence since, and whether
\* vkAllocateCommandBuffers wrote the array element; queued says that it was
\* submitted since it was last reset with its pool or begun
NewCommandBuffer ==
    [state |-> "initial", inPass |-> FALSE, first |-> "none",
     blit |-> FALSE, submitted |-> FALSE, allocated |-> TRUE,
     queued |-> FALSE]
NoCommandBuffer ==
    [NewCommandBuffer EXCEPT !.state = "unallocated", !.allocated = FALSE]

InitGpu ==
    [commandBuffers |-> <<NewCommandBuffer>>,
     clearRequested |-> {},
     nextImage |-> 0,
     nativePipelines |-> {},
     nativeRenderPasses |-> {},
     nativeFramebuffers |-> {},
     nativeSamplers |-> {},
     failedKeys |-> {},
     buffersCreated |-> 0,
     failures |-> 0,
     calls |-> 0,
     cbPipelineBound |-> FALSE,
     cbPipeline |-> NULL,
     pendingReads |-> {},
     fence |-> "signaled",
     fenceArmed |-> FALSE,
     hung |-> FALSE,
     ub |-> {},
     crashed |-> FALSE,
     destroyedNatives |-> {},
     destroyedTwice |-> {},
     destroyed |-> FALSE]

\* the bookkeeping of a buffer's latest data write in the running frame
NoPrevWrite ==
    [valid |-> FALSE, options |-> 0, cursor |-> 0, lo |-> 0, hi |-> 0, fits |-> FALSE]
NoWrite ==
    [done |-> FALSE, buf |-> 0, options |-> 0, boundBefore |-> 0,
     idle |-> FALSE, cursor |-> 0, lo |-> 0, hi |-> 0, fits |-> FALSE,
     prev |-> NoPrevWrite]

NoFetch ==
    [called |-> FALSE, invoked |-> FALSE,
     createdBefore |-> NULL, invokedBefore |-> FALSE, result |-> NULL]

\* the events of a call: nothing has happened yet
\* what BeginRenderPass left behind at its return
NoPassBegin ==
    [returned |-> FALSE, renderPassInProgress |-> 0, commandBufferCount |-> 0,
     state |-> "none", inPass |-> FALSE, requested |-> {}, cleared |-> {},
     slotsMarked |-> FALSE, ldCleared |-> FALSE]

\* what Stall left behind at its return
NoStall ==
    [returned |-> FALSE, error |-> FALSE, renderPassInProgress |-> 0,
     commandBufferCount |-> 0, state |-> "none", needNewRenderPass |-> 0,
     submitted |-> FALSE, idle |-> FALSE, buffersReset |-> FALSE]

NoEvents ==
    [ubBefore |-> FALSE,
     records |-> {},
     passBegin |-> NoPassBegin,
     endPasses |-> {},
     frameSteps |-> <<>>,
     beginFrames |-> {},
     unfencedReuse |-> FALSE,
     submits |-> {},
     presents |-> {},
     swapped |-> FALSE,
     queueFailure |-> "none",
     dispose |-> [done |-> FALSE, buf |-> 0, handle |-> 0],
     teardown |-> FALSE,
     vulkanResult |-> "VK_SUCCESS",
     cleared |-> {},
     staged |-> <<>>,
     descriptorUpdates |-> <<>>,
     fetch |-> NoFetch,
     createFailed |-> {},
     drew |-> FALSE,
     newFrame |-> [started |-> FALSE, bound |-> {}],
     stalls |-> 0,
     stalled |-> NoStall,
     idleWaits |-> 0,
     write |-> NoWrite,
     writes |-> {},
     racedWrite |-> FALSE,
     reallocs |-> {}]

World == [r |-> renderer, b |-> buffers, g |-> gpu, e |-> ev]
Start ==
    [r |-> renderer, b |-> buffers, g |-> gpu,
     e |-> [NoEvents EXCEPT !.ubBefore = gpu.ub # {}]]
Commit(t) ==
    /\ renderer' = t.r
    /\ buffers' = t.b
    /\ gpu' = t.g
    /\ ev' = t.e

\* the outcome of native call `name` under the action's input `fail`
Fails(s, fail, name) == fail = name /\ s.g.failures < MaxNativeFailures
Failed(s) == [s EXCEPT !.g.failures = @ + 1]
\* a native call whose VkResult the handler looks at, and the test of it
Native(s, fail, name) ==
    IF Fails(s, fail, name)
    THEN [Failed(s) EXCEPT !.e.vulkanResult = "error"]
    ELSE [s EXCEPT !.e.vulkanResult = "VK_SUCCESS"]
VkError(s) == s.e.vulkanResult # "VK_SUCCESS"
\* vkDestroy... of the native objects `natives`
Destroy(s, natives) ==
    [s EXCEPT !.g.destroyedTwice = @ \cup (natives \cap s.g.destroyedNatives),
              !.g.destroyedNatives = @ \cup natives]
\* an invalid memory access: the process dies, or goes on with garbage
Trap(s) == [s EXCEPT !.g.crashed = TRUE]
\* what: "commandBuffers" (index -1), "attachment" (NULL), "contents" (past
\* the end of the allocation)
Invalid(s, ub, what) ==
    IF ub = "trap" THEN Trap(s) ELSE [s EXCEPT !.g.ub = @ \cup {what}]

(***************************************************************************)
(* ObjectCache: the four fetch functions                                   *)
(***************************************************************************)
GetPipelineHash(s) ==
    [blendState |-> GetBlendStateHash(s.r.blendState),
     rasterizerState |-> GetRasterizerStateHash(s.r.rasterizerState),
     depthStencilState |-> GetDepthStencilStateHash(s.r.depthStencilState),
     primitiveType |-> s.r.currentPrimitiveType,
     renderPass |-> s.r.renderPass]

GetRenderPassHash(s) == s.r.colorAttachmentCount + s.r.depthStencilAttachmentActive

PipelineCacheHit_Never(s, hash) == FALSE
PipelineCacheHit(s, hash) == HmHas(s.r.pipelineHashMap, hash)

\* the world after FetchPipeline; the handle returned is e.fetch.result
FetchPipeline(s, fail) ==
    LET hash == GetPipelineHash(s)
        created == {p \in s.g.nativePipelines : p.key = hash}
        fetch == [called |-> TRUE, invoked |-> FALSE,
                  createdBefore |-> IF created = {} THEN NULL
                                    ELSE (CHOOSE p \in created : TRUE).id,
                  invokedBefore |-> created # {} \/ hash \in s.g.failedKeys,
                  result |-> NULL]
    IN
    IF PipelineCacheHit(s, hash)
    THEN [s EXCEPT !.r.currentPipelineHash = hash,
                   !.e.fetch = [fetch EXCEPT !.result = HmGet(s.r.pipelineHashMap, hash)]]
    ELSE IF Fails(s, fail, "vkCreateGraphicsPipelines")
    THEN [Failed(s) EXCEPT
                   !.g.failedKeys = @ \cup {hash},
                   !.e.createFailed = @ \cup {"pipeline"},
                   !.e.fetch = [fetch EXCEPT !.invoked = TRUE]]
    ELSE LET pipeline == Cardinality(s.g.nativePipelines) + 1 IN
         [s EXCEPT !.g.nativePipelines = @ \cup {[key |-> hash, id |-> pipeline]},
                   !.r.pipelineHashMap = HmPut(@, hash, pipeline),
                   !.r.currentPipelineHash = hash,
                   !.e.fetch = [fetch EXCEPT !.invoked = TRUE, !.result = pipeline]]

\* the world after FetchRenderPass, with the handle returned in r.renderPass
\* (BeginRenderPass, its only caller, assigns it there)
FetchRenderPass(s, fail) ==
    LET hash == GetRenderPassHash(s) IN
    IF HmHas(s.r.renderPassHashMap, hash)
    THEN [s EXCEPT !.r.renderPass = HmGet(s.r.renderPassHashMap, hash)]
    ELSE LET t == [s EXCEPT !.r.depthStencilAttachmentActive =
                       IF s.r.currentDepthFormat # FNA3D_DEPTHFORMAT_NONE THEN 1 ELSE 0]
         IN
         IF Fails(t, fail, "vkCreateRenderPass")
         THEN [Failed(t) EXCEPT !.e.createFailed = @ \cup {"renderPass"},
                                !.r.renderPass = NULL]
         ELSE LET renderPass == Cardinality(t.g.nativeRenderPasses) + 1 IN
              [t EXCEPT !.g.nativeRenderPasses = @ \cup
                            {[key |-> hash, id |-> renderPass,
                              attachmentCount |-> t.r.colorAttachmentCount
                                                  + t.r.depthStencilAttachmentActive]},
                        !.r.renderPassHashMap = HmPut(@, hash, renderPass),
                        !.r.renderPass = renderPass]

\* the value of the local `framebuffer` when vkCreateFramebuffer did not write it
GarbageHandle == -1

\* the world after FetchFramebuffer, with the handle returned in r.framebuffer;
\* ub is what an invalid memory access does
FetchFramebuffer(s, fail, ub) ==
    LET hash == GetRenderPassHash(s)
        \* colorAttachments[i]->view and depthStencilAttachment->view are read
        u == IF \/ s.r.colorAttachments0 = "NULL"
                \/ /\ s.r.depthStencilAttachmentActive = 1
                   /\ s.r.depthStencilAttachment = "NULL"
             THEN Invalid(s, ub, "attachment") ELSE s
    IN
    IF HmHas(s.r.framebufferHashMap, hash)
    THEN [s EXCEPT !.r.framebuffer = HmGet(s.r.framebufferHashMap, hash)]
    ELSE IF u.g.crashed THEN u
    ELSE IF Fails(u, fail, "vkCreateFramebuffer")
    THEN [Failed(u) EXCEPT !.e.createFailed = @ \cup {"framebuffer"},
                           !.r.framebufferHashMap = HmPut(@, hash, GarbageHandle),
                           !.r.framebuffer = GarbageHandle]
    ELSE LET framebuffer == Cardinality(u.g.nativeFramebuffers) + 1 IN
         [u EXCEPT !.g.nativeFramebuffers = @ \cup
                       {[key |-> hash, id |-> framebuffer,
                         renderPass |-> u.r.renderPass,
                         attachmentCount |-> u.r.colorAttachmentCount
                                             + u.r.depthStencilAttachmentActive]},
                   !.r.framebufferHashMap = HmPut(@, hash, framebuffer),
                   !.r.framebuffer = framebuffer]

\* the world after FetchSamplerState; the sampler returned is not kept by the
\* callers (they store the address of a local), so it is not returned here
FetchSamplerState(s, samplerState, fail) ==
    LET hash == GetSamplerStateHash(samplerState) IN
    IF HmHas(s.r.samplerStateHashMap, hash)
    THEN s
    ELSE IF Fails(s, fail, "vkCreateSampler")
    THEN [Failed(s) EXCEPT !.e.createFailed = @ \cup {"sampler"}]
    ELSE LET state == Cardinality(s.g.nativeSamplers) + 1 IN
         [s EXCEPT !.g.nativeSamplers = @ \cup {[key |-> hash, id |-> state]},
                   !.r.samplerStateHashMap = HmPut(@, hash, state)]


(***************************************************************************)
(* The native queue, the frame fence and the GPU                           *)
(***************************************************************************)
\* the command buffer commandBuffers[commandBufferCount - 1]
HasCurrent(s) ==
    s.r.commandBufferCount >= 1 /\ s.r.commandBufferCount <= Len(s.g.commandBuffers)
Current(s) == s.g.commandBuffers[s.r.commandBufferCount]

\* the GPU finishes everything submitted so far
GpuComplete(s) ==
    [s EXCEPT !.g.pendingReads = {p \in @ : ~p.submitted},
              !.g.commandBuffers =
                  [i \in DOMAIN @ |->
                      IF @[i].state = "pending"
                      THEN [@[i] EXCEPT !.state = "executable"] ELSE @[i]],
              !.g.fence = IF s.g.fenceArmed THEN "signaled" ELSE @,
              !.g.fenceArmed = FALSE]

\* a successful vkQueueSubmit of commandBuffers[0 .. commandBufferCount-1] that
\* passes renderQueueFence; a command buffer that is not executable is not
\* valid to submit
QueueSubmit(s, by, waitSemaphores, signalSemaphores) ==
    LET n == s.r.commandBufferCount
        batch == {i \in DOMAIN s.g.commandBuffers : i <= n}
    IN
    [s EXCEPT !.g.pendingReads = {[p EXCEPT !.submitted = TRUE] : p \in @},
              !.g.commandBuffers =
                  [i \in DOMAIN @ |->
                      IF i \in batch
                      THEN [@[i] EXCEPT !.state = IF @ = "executable"
                                                  THEN "pending" ELSE "invalid",
                                        !.submitted = TRUE,
                                        !.queued = TRUE]
                      ELSE @[i]],
              !.g.fenceArmed = TRUE,
              !.e.submits = @ \cup
                  {[by |-> by,
                    waits |-> waitSemaphores,
                    signals |-> signalSemaphores,
                    blit |-> \E i \in batch : s.g.commandBuffers[i].blit,
                    states |-> {s.g.commandBuffers[i].state : i \in batch},
                    again |-> \E i \in batch : s.g.commandBuffers[i].queued,
                    fence |-> s.g.fence,
                    fenceArmed |-> s.g.fenceArmed]}]

\* vkWaitForFences with an unlimited timeout: returns once the fence is signaled
WaitForFence(s) ==
    IF s.g.fence = "signaled" THEN s
    ELSE IF s.g.fenceArmed THEN GpuComplete(s)
    ELSE [s EXCEPT !.g.hung = TRUE]

\* vkResetFences after the wait: the submissions made so far are retired
ResetFences(s) ==
    [s EXCEPT !.g.fence = "unsignaled",
              !.g.commandBuffers =
                  [i \in DOMAIN @ |-> [@[i] EXCEPT !.submitted = FALSE]]]

\* vkResetCommandPool: what was recorded and not submitted is gone, every
\* allocated command buffer is back in the initial state
ResetCommandPool(s) ==
    [s EXCEPT !.g.pendingReads = {p \in @ : p.submitted},
              !.g.commandBuffers =
                  [i \in DOMAIN @ |->
                      IF ~@[i].allocated THEN @[i]
                      ELSE [NewCommandBuffer EXCEPT
                               !.submitted = s.g.commandBuffers[i].submitted]],
              !.e.unfencedReuse = @ \/ \E i \in DOMAIN s.g.commandBuffers :
                                          s.g.commandBuffers[i].submitted,
              !.g.cbPipelineBound = FALSE,
              !.g.cbPipeline = NULL]

\* command cmd is recorded into commandBuffers[commandBufferCount - 1]
RecordCommand(s, cmd, ub) ==
    IF s.g.crashed THEN s
    ELSE IF ~HasCurrent(s)
    THEN [Invalid(s, ub, "commandBuffers") EXCEPT
             !.e.records = @ \cup {[cmd |-> cmd,
                                    commandBufferCount |-> s.r.commandBufferCount,
                                    state |-> "none", inPass |-> FALSE]}]
    ELSE LET cb == Current(s) IN
         [s EXCEPT !.g.commandBuffers[s.r.commandBufferCount] =
                       [cb EXCEPT !.first = IF cb.inPass /\ @ = "none" THEN cmd ELSE @,
                                  !.blit = @ \/ cmd = "vkCmdBlitImage"],
                   !.e.records = @ \cup {[cmd |-> cmd,
                                          commandBufferCount |-> s.r.commandBufferCount,
                                          state |-> cb.state, inPass |-> cb.inPass]}]

(***************************************************************************)
(* PassAndFrameEngine                                                      *)
(***************************************************************************)
\* commandBufferCount++ and the capacity doubling shared by
\* AllocateAndBeginCommandBuffer and BeginRenderPass: the array is
\* reallocated and the one element at commandBufferCount - 1 is allocated
CountCommandBuffer(s) ==
    [s EXCEPT !.r.commandBufferCount = @ + 1,
              !.g.cbPipelineBound = FALSE,
              !.g.cbPipeline = NULL,
              !.e.vulkanResult = "VK_SUCCESS"]

AllocatedCommandBuffer(s) ==
    IF VkError(s) THEN s
    ELSE [s EXCEPT !.g.commandBuffers[s.r.commandBufferCount] = NewCommandBuffer]

NextCommandBuffer(s, fail) ==
    IF s.r.commandBufferCount + 1 <= s.r.commandBufferCapacity
    THEN CountCommandBuffer(s)
    ELSE AllocatedCommandBuffer(
             Native([CountCommandBuffer(s) EXCEPT
                        !.r.commandBufferCapacity = @ * 2,
                        !.g.commandBuffers =
                            @ \o [i \in 1..Len(@) |-> NoCommandBuffer]],
                    fail, "vkAllocateCommandBuffers"))

\* vkBeginCommandBuffer on the current command buffer.  The pool is created
\* without VK_COMMAND_POOL_CREATE_RESET_COMMAND_BUFFER_BIT: only a command
\* buffer in the initial state may be begun.
BegunCommandBuffer(s) ==
    IF VkError(s) THEN s
    ELSE LET cb == Current(s) IN
         [s EXCEPT !.g.commandBuffers[s.r.commandBufferCount] =
                       IF cb.state = "initial"
                       THEN [cb EXCEPT !.state = "recording", !.inPass = FALSE,
                                       !.first = "none", !.blit = FALSE,
                                       !.queued = FALSE]
                       ELSE [cb EXCEPT !.state = "invalid", !.inPass = FALSE,
                                       !.first = "none", !.queued = FALSE],
                   !.e.unfencedReuse = @ \/ cb.submitted]

BeginCommandBuffer(s, fail) ==
    BegunCommandBuffer(Native(s, fail, "vkBeginCommandBuffer"))

\* vkEndCommandBuffer on the current command buffer; its result is only
\* logged by the callers and the call is taken to succeed
EndCommandBuffer(s) ==
    IF s.g.crashed \/ ~HasCurrent(s) THEN s
    ELSE
    [s EXCEPT !.g.commandBuffers[s.r.commandBufferCount] =
                  [@ EXCEPT !.state = IF @ = "recording" THEN "executable" ELSE "invalid",
                            !.inPass = FALSE]]

\* vkBeginCommandBuffer, reached only when the allocation succeeded
BeginAllocated(s, fail) ==
    IF VkError(s) THEN s ELSE BeginCommandBuffer(s, fail)

AllocateAndBeginCommandBuffer(s, fail) ==
    BeginAllocated(NextCommandBuffer(s, fail), fail)

\* every VulkanBuffer of the renderer's list gets its bookkeeping reset
ResetBuffers(b) ==
    [b EXCEPT !.obj = [id \in DOMAIN @ |->
        IF \E i \in 1..Len(b.list) : b.list[i] = id
        THEN [@[id] EXCEPT !.internalOffset = 0,
                           !.boundThisFrame = 0,
                           !.prevDataLength = 0,
                           !.liveEnd = 0,
                           !.prevWrite = NoPrevWrite]
        ELSE @[id]]]

\* a frame starts or ends: no buffer has a latest write in the frame
ForgetWrites(b) ==
    [b EXCEPT !.obj = [id \in DOMAIN @ |-> [@[id] EXCEPT !.prevWrite = NoPrevWrite]]]

Step(s, name) == [s EXCEPT !.e.frameSteps = Append(@, name)]

\* VULKAN_BeginFrame past its early return; frameSteps lists the steps of
\* the latest invocation
ImageAcquired_KeepCount(s) ==
    IF VkError(s) THEN s
    ELSE [Step(s, "commandBufferCount") EXCEPT
             !.e.beginFrames = @ \cup {"started"},
             !.r.frameInProgress = 1]
ImageAcquired(s) ==
    IF VkError(s) THEN s
    ELSE [Step(s, "commandBufferCount") EXCEPT
             !.e.beginFrames = @ \cup {"started"},
             !.r.currentSwapChainIndex = s.g.nextImage,
             !.r.frameInProgress = 1,
             !.r.commandBufferCount = 0,
             !.b = ForgetWrites(@),
             !.e.newFrame =
                 [started |-> TRUE,
                  bound |-> {id \in DOMAIN s.b.obj :
                                s.b.obj[id].boundThisFrame = 1}]]

FenceWaited(s, fail) ==
    IF s.g.hung THEN s
    ELSE ImageAcquired(
             Native(Step(ResetCommandPool(
                             Step(ResetFences(Step(s, "vkResetFences")),
                                  "vkResetCommandPool")),
                         "vkAcquireNextImageKHR"),
                    fail, "vkAcquireNextImageKHR"))

StartFrame(s, fail) ==
    FenceWaited(WaitForFence(Step([s EXCEPT !.e.frameSteps = <<>>],
                                  "vkWaitForFences")),
                fail)

BeginFrame_Restart(s, fail) == StartFrame(s, fail)
BeginFrame(s, fail) ==
    IF s.r.frameInProgress = 1
    THEN [s EXCEPT !.e.beginFrames = @ \cup {"active"}]
    ELSE StartFrame(s, fail)

PassActive_Always(s) == TRUE
PassActive(s) == s.r.renderPassInProgress = 1 /\ s.r.commandBufferCount > 0

EndPass_Skip(s) == s
EndPass(s) ==
    IF PassActive(s)
    THEN LET c == RecordCommand(s, "vkCmdEndRenderPass", "garbage") IN
         [EndCommandBuffer(c) EXCEPT !.r.renderPassInProgress = 0,
                                     !.e.endPasses = @ \cup {"ended"}]
    ELSE [s EXCEPT !.e.endPasses = @ \cup {"none"}]

\* the dynamic-state commands, recorded only inside a render pass
SetScissorRectCommand(s, ub) ==
    IF s.g.crashed \/ s.r.renderPassInProgress = 0 THEN s
    ELSE IF s.r.colorAttachments0 = "NULL"
    THEN RecordCommand(Invalid(s, ub, "attachment"), "vkCmdSetScissor", ub)
    ELSE RecordCommand(s, "vkCmdSetScissor", ub)

SetStencilReferenceValueCommand(s, ub) ==
    IF s.g.crashed \/ s.r.renderPassInProgress = 0 THEN s
    ELSE RecordCommand(s, "vkCmdSetStencilReference", ub)

SetDepthBiasCommand(s, ub) ==
    IF s.g.crashed \/ s.r.renderPassInProgress = 0 THEN s
    ELSE RecordCommand(s, "vkCmdSetDepthBias", ub)

\* the sampler slots and the vertex buffer bindings of the frame in flight
SamplerSlice(s) ==
    {i \in DOMAIN s.r.textures :
        /\ i >= MAX_TOTAL_SAMPLERS * s.r.currentSwapChainIndex
        /\ i < MAX_TOTAL_SAMPLERS * s.r.currentSwapChainIndex + MAX_TOTAL_SAMPLERS}
VertexBufferSlice(s) ==
    {i \in DOMAIN s.r.ldVertexBuffers :
        /\ i >= MAX_BOUND_VERTEX_BUFFERS * s.r.currentSwapChainIndex
        /\ i < MAX_BOUND_VERTEX_BUFFERS * s.r.currentSwapChainIndex
                   + MAX_BOUND_VERTEX_BUFFERS}

\* needsUpdate after `if (pointer != none) needsUpdate = 1`; an element never
\* written holds an indeterminate value, and the flag it decides stays one
Marked(pointer, none, needsUpdate) ==
    IF pointer = Uninit THEN (IF needsUpdate = 1 THEN 1 ELSE Uninit)
    ELSE IF pointer # none THEN 1
    ELSE needsUpdate

\* "Reset bindings for the current frame in flight"
ResetBindings(s) ==
    LET k == s.r.currentSwapChainIndex
        slots == SamplerSlice(s)
        bindings == VertexBufferSlice(s)
    IN
    [s EXCEPT !.r.textureNeedsUpdate =
                  [i \in DOMAIN @ |->
                      IF i \in slots
                      THEN Marked(s.r.textures[i], NullTexture, @[i]) ELSE @[i]],
              !.r.samplerNeedsUpdate =
                  [i \in DOMAIN @ |->
                      IF i \in slots
                      THEN Marked(s.r.samplers[i], NULL, @[i]) ELSE @[i]],
              !.r.ldFragUniformBuffers[k] = NULL,
              !.r.ldFragUniformOffsets[k] = 0,
              !.r.ldVertUniformBuffers[k] = NULL,
              !.r.ldVertUniformOffsets[k] = 0,
              !.r.ldVertexBuffers =
                  [i \in DOMAIN @ |-> IF i \in bindings THEN NULL ELSE @[i]],
              !.r.ldVertexBufferOffsets =
                  [i \in DOMAIN @ |-> IF i \in bindings THEN 0 ELSE @[i]]]

\* every bound slot of the frame in flight is to be rewritten
SlotsMarked(s) ==
    \A i \in SamplerSlice(s) :
        /\ s.r.textures[i] \notin {Uninit, NullTexture} =>
               s.r.textureNeedsUpdate[i] = 1
        /\ s.r.samplers[i] \notin {Uninit, NULL} =>
               s.r.samplerNeedsUpdate[i] = 1

\* the last-draw caches of the frame in flight hold no buffer
LdCleared(s) ==
    LET k == s.r.currentSwapChainIndex IN
    /\ s.r.ldFragUniformBuffers[k] = NULL /\ s.r.ldFragUniformOffsets[k] = 0
    /\ s.r.ldVertUniformBuffers[k] = NULL /\ s.r.ldVertUniformOffsets[k] = 0
    /\ \A i \in VertexBufferSlice(s) :
           s.r.ldVertexBuffers[i] = NULL /\ s.r.ldVertexBufferOffsets[i] = 0

\* BeginRenderPass returns: what it leaves behind
PassBegun(s) ==
    [s EXCEPT !.e.passBegin =
        [@ EXCEPT !.returned = TRUE,
                  !.slotsMarked = SlotsMarked(s),
                  !.ldCleared = LdCleared(s),
                  !.renderPassInProgress = s.r.renderPassInProgress,
                  !.commandBufferCount = s.r.commandBufferCount,
                  !.state = IF HasCurrent(s) THEN Current(s).state ELSE "none",
                  !.inPass = HasCurrent(s) /\ Current(s).inPass]]

\* vkCmdBeginRenderPass with renderer->renderPass and renderer->framebuffer
BegunRenderPass(s) ==
    IF s.g.crashed \/ ~HasCurrent(s) THEN s
    ELSE [s EXCEPT !.g.commandBuffers[s.r.commandBufferCount].inPass =
                       Current(s).state = "recording" /\ s.r.renderPass # NULL]

CmdBeginRenderPass(s, ub) ==
    BegunRenderPass(RecordCommand(s, "vkCmdBeginRenderPass", ub))

PassRecorded(s) ==
    IF s.g.crashed THEN s
    ELSE PassBegun([s EXCEPT !.r.needNewRenderPass = 0])

\* the dynamic state, the reset of the bindings, vkCmdBeginRenderPass
PassRecording(s, ub) ==
    IF VkError(s) THEN PassBegun(s)
    ELSE PassRecorded(
             CmdBeginRenderPass(
                 ResetBindings(
                     RecordCommand(
                         RecordCommand(
                             SetStencilReferenceValueCommand(
                                 SetScissorRectCommand(
                                     RecordCommand(
                                         [s EXCEPT !.r.renderPassInProgress = 1,
                                                   !.r.pipelineBoundThisFrame = 0],
                                         "vkCmdSetViewport", ub),
                                     ub),
                                 ub),
                             "vkCmdSetBlendConstants", ub),
                         "vkCmdSetDepthBias", ub)),
                 ub))

PassFetched(s, fail, ub) ==
    IF s.g.crashed THEN s
    ELSE PassRecording(BeginCommandBuffer(s, fail), ub)

PassAllocated(s, fail, ub) ==
    IF VkError(s) THEN PassBegun(s)
    ELSE PassFetched(FetchFramebuffer(FetchRenderPass(s, fail), fail, ub), fail, ub)

BeginRenderPass(s, fail, ub) ==
    PassAllocated(NextCommandBuffer(s, fail), fail, ub)

\* vkCmdClearAttachments over the attachments' bounding rectangle; an element
\* of clearAttachments the handler did not fill is passed as it is
\* the elements of clearAttachments the handler does not fill
ClearAttachments(s, clearColor, clearDepth, clearStencil, ub) ==
    IF s.g.crashed THEN s
    ELSE IF \/ clearColor = 0
            \/ /\ s.r.depthStencilAttachmentActive = 1
               /\ clearDepth = 0 /\ clearStencil = 0
    THEN Invalid(s, ub, "clearAttachments")
    ELSE s

ClearRecorded(s, clearColor, clearDepth, clearStencil) ==
    IF s.g.crashed \/ ~HasCurrent(s) THEN s
    ELSE IF Current(s).state # "recording" \/ ~Current(s).inPass THEN s
    ELSE LET depthStencil == s.r.depthStencilAttachmentActive = 1
                             /\ (clearDepth = 1 \/ clearStencil = 1)
         IN
         [s EXCEPT !.e.cleared = @ \cup
             (IF clearColor = 1 THEN {"TARGET"} ELSE {})
             \cup (IF depthStencil /\ clearDepth = 1 THEN {"DEPTHBUFFER"} ELSE {})
             \cup (IF depthStencil /\ clearStencil = 1 THEN {"STENCIL"} ELSE {})]

InternalClear(s, clearColor, clearDepth, clearStencil, ub) ==
    IF s.g.crashed THEN s
    ELSE ClearRecorded(
             RecordCommand(
                 \* colorAttachments[0]->dimensions is read for the rectangle
                 ClearAttachments(IF s.r.colorAttachments0 = "NULL"
                                  THEN Invalid(s, ub, "attachment") ELSE s,
                                  clearColor, clearDepth, clearStencil, ub),
                 "vkCmdClearAttachments", ub),
             clearColor, clearDepth, clearStencil)

\* InternalClear with the clear that was asked for while no pass was active
ClearPending(s, ub) ==
    InternalClear(s, s.r.shouldClearColor, s.r.shouldClearDepth,
                  s.r.shouldClearStencil, ub)

PassUpdated(s) ==
    IF s.g.crashed THEN s
    ELSE [s EXCEPT !.r.needNewRenderPass = 0,
                   !.r.shouldClearColor = 0,
                   !.r.shouldClearDepth = 0,
                   !.r.shouldClearStencil = 0,
                   !.g.clearRequested = {},
                   !.e.passBegin.requested = s.g.clearRequested,
                   !.e.passBegin.cleared = s.e.cleared]

FrameBegun(s, fail, ub) ==
    IF s.g.hung THEN s
    ELSE PassUpdated(
             ClearPending(
                 BeginRenderPass(IF s.r.renderPassInProgress = 1
                                 THEN EndPass(s) ELSE s,
                                 fail, ub),
                 ub))

UpdateRenderPass(s, fail, ub) ==
    IF s.r.needNewRenderPass = 0 THEN s
    ELSE FrameBegun(BeginFrame(s, fail), fail, ub)

\* toBackbuffer: renderTargets == NULL
Retarget(s, toBackbuffer) ==
    IF s.g.crashed \/ s.g.hung THEN s
    ELSE IF ~toBackbuffer
    THEN [s EXCEPT !.r.needNewRenderPass = 1,
                   !.r.colorAttachments0 = "NULL",
                   !.r.depthStencilAttachment = "NULL",
                   !.r.depthStencilAttachmentActive = 0]
    ELSE IF s.r.fauxBackbufferDepthFormat # FNA3D_DEPTHFORMAT_NONE
    THEN [s EXCEPT !.r.needNewRenderPass = 1,
                   !.r.colorAttachments0 = "fauxBackbufferColor",
                   !.r.depthStencilAttachment = "fauxBackbufferDepthStencil",
                   !.r.depthStencilAttachmentActive = 1]
    ELSE [s EXCEPT !.r.needNewRenderPass = 1,
                   !.r.colorAttachments0 = "fauxBackbufferColor",
                   !.r.depthStencilAttachment = "NULL",
                   !.r.depthStencilAttachmentActive = 0]

SetRenderTargets(s, toBackbuffer, fail, ub) ==
    IF \/ s.r.shouldClearColor = 1
       \/ s.r.shouldClearDepth = 1
       \/ s.r.shouldClearStencil = 1
    THEN Retarget(UpdateRenderPass(s, fail, ub), toBackbuffer)
    ELSE Retarget(s, toBackbuffer)

Flag(options, option) == IF option \in options THEN 1 ELSE 0

Clear(s, options, ub) ==
    IF s.r.renderPassInProgress = 1
    THEN InternalClear(s, Flag(options, "TARGET"), Flag(options, "DEPTHBUFFER"),
                       Flag(options, "STENCIL"), ub)
    ELSE [s EXCEPT !.r.needNewRenderPass = 1,
                   !.r.shouldClearColor = Flag(options, "TARGET"),
                   !.r.shouldClearDepth = Flag(options, "DEPTHBUFFER"),
                   !.r.shouldClearStencil = Flag(options, "STENCIL"),
                   !.g.clearRequested = @ \cup options]

\* AllocateAndBeginCommandBuffer (its result is not looked at), the blit with
\* its layout transitions, vkEndCommandBuffer
BlitFramebuffer(s, fail, ub) ==
    EndCommandBuffer(
        RecordCommand(
            RecordCommand(
                RecordCommand(AllocateAndBeginCommandBuffer(s, fail),
                              "vkCmdPipelineBarrier", ub),
                "vkCmdBlitImage", ub),
            "vkCmdPipelineBarrier", ub))

Presented(s, fail) ==
    [(IF Fails(s, fail, "vkQueuePresentKHR")
      THEN [Failed(s) EXCEPT !.e.queueFailure = "vkQueuePresentKHR"]
      ELSE s) EXCEPT
        !.r.frameInProgress = 0,
        !.b = ForgetWrites(@),
        !.e.swapped = TRUE,
        !.e.presents = @ \cup
            {[waits |-> {"renderFinishedSemaphore"},
              submitted |-> s.e.submits # {}]}]

Blitted(s, fail) ==
    IF s.g.crashed THEN s
    ELSE IF Fails(s, fail, "vkQueueSubmit")
    THEN [Failed(s) EXCEPT !.e.queueFailure = "vkQueueSubmit"]
    ELSE Presented(QueueSubmit(s, "VULKAN_SwapBuffers",
                               {"imageAvailableSemaphore"},
                               {"renderFinishedSemaphore"}),
                   fail)

Retargeted(s, fail, ub) ==
    IF s.g.crashed \/ s.g.hung THEN s
    ELSE Blitted(BlitFramebuffer(EndPass(s), fail, ub), fail)

SwapFrameBegun(s, fail, ub) ==
    IF s.g.hung THEN s
    ELSE Retargeted(SetRenderTargets(s, TRUE, fail, ub), fail, ub)

SwapBuffers(s, fail, ub) ==
    SwapFrameBegun(BeginFrame(s, fail), fail, ub)

\* Stall returns past its two native calls: what it leaves behind
StallReturned(s) ==
    [s EXCEPT !.e.stalled =
        [returned |-> TRUE,
         error |-> VkError(s),
         renderPassInProgress |-> s.r.renderPassInProgress,
         commandBufferCount |-> s.r.commandBufferCount,
         state |-> IF HasCurrent(s) THEN Current(s).state ELSE "none",
         needNewRenderPass |-> s.r.needNewRenderPass,
         submitted |-> \E m \in s.e.submits : m.by = "Stall",
         idle |-> s.e.idleWaits > 0,
         buffersReset |->
             \A i \in 1..Len(s.b.list) :
                 /\ s.b.obj[s.b.list[i]].internalOffset = 0
                 /\ s.b.obj[s.b.list[i]].boundThisFrame = 0
                 /\ s.b.obj[s.b.list[i]].prevDataLength = 0]]

StallSubmitted(s, fail) ==
    IF Fails(s, fail, "vkQueueWaitIdle") THEN Failed(s)
    ELSE StallReturned(
             [AllocateAndBeginCommandBuffer(
                  [GpuComplete(s) EXCEPT !.e.idleWaits = @ + 1,
                                         !.r.commandBufferCount = 0],
                  fail)
              EXCEPT !.r.needNewRenderPass = 1,
                     !.b = ResetBuffers(@)])

StallPassEnded(s, fail) ==
    IF Fails(s, fail, "vkQueueSubmit") THEN Failed(s)
    ELSE StallSubmitted(QueueSubmit(s, "Stall", {}, {}), fail)

Stall(s, fail) ==
    StallPassEnded([EndPass(s) EXCEPT !.e.stalls = @ + 1], fail)


(***************************************************************************)
(* Pipeline binding and the rasterizer / sampler state setters             *)
(***************************************************************************)
BindPipeline(s, fail, ub) ==
    LET f == FetchPipeline(s, fail)
        c == RecordCommand(f, "vkCmdBindPipeline", ub)
    IN
    IF c.g.crashed THEN c
    ELSE IF ~HasCurrent(c) THEN [c EXCEPT !.r.pipelineBoundThisFrame = 1]
    ELSE [c EXCEPT !.g.cbPipelineBound = TRUE,
                   !.g.cbPipeline = f.e.fetch.result,
                   !.r.pipelineBoundThisFrame = 1]

CheckPrimitiveTypeAndBindPipeline(s, primitiveType, fail, ub) ==
    IF s.g.crashed THEN s
    ELSE IF s.r.pipelineBoundThisFrame = 0 \/ primitiveType # s.r.currentPrimitiveType
    THEN BindPipeline([s EXCEPT !.r.currentPrimitiveType = primitiveType], fail, ub)
    ELSE s

\* the multisample field is assigned before the three fields are compared
ApplyRasterizerState(s, rasterizerState, fail, ub) ==
    LET m == [s EXCEPT !.r.rasterizerState.multiSampleAntiAlias =
                            rasterizerState.multiSampleAntiAlias]
    IN
    IF \/ rasterizerState.cullMode # m.r.rasterizerState.cullMode
       \/ rasterizerState.fillMode # m.r.rasterizerState.fillMode
       \/ rasterizerState.multiSampleAntiAlias # m.r.rasterizerState.multiSampleAntiAlias
    THEN BindPipeline([m EXCEPT !.r.rasterizerState = rasterizerState], fail, ub)
    ELSE m

SetViewport(s, viewport, ub) ==
    IF viewport = s.r.viewport THEN s
    ELSE LET v == [s EXCEPT !.r.viewport = viewport] IN
         IF v.r.frameInProgress = 1 THEN RecordCommand(v, "vkCmdSetViewport", ub)
         ELSE v

\* `element != value`; an element never written compares as `junk` says
Differs(element, value, junk) ==
    IF element = Uninit THEN junk ELSE element # value

\* index is used as it is, with no offset for the frame in flight; the
\* sampler FetchSamplerState returns is kept in a local, and the address of
\* that local is what the handler stores and compares
VerifySampler(s, index, texture, sampler, junk, fail) ==
    IF texture = NULL
    THEN LET t == IF Differs(s.r.textures[index], NullTexture, junk)
                  THEN [s EXCEPT !.r.textures[index] = NullTexture,
                                 !.r.textureNeedsUpdate[index] = 1]
                  ELSE [s EXCEPT !.r.textures[index] = NullTexture]
         IN
         IF ~Differs(t.r.samplers[index], NULL, junk)
         THEN [FetchSamplerState(t, sampler, fail) EXCEPT
                  !.r.samplers[index] = LocalSampler,
                  !.r.samplerNeedsUpdate[index] = 1]
         ELSE t
    ELSE IF /\ ~Differs(s.r.textures[index], texture, junk)
            /\ sampler = s.r.textureParams[texture]
    THEN [s EXCEPT !.r.textures[index] = texture]
    ELSE LET t == IF Differs(s.r.textures[index], texture, junk)
                  THEN [s EXCEPT !.r.textures[index] = texture,
                                 !.r.textureNeedsUpdate[index] = 1]
                  ELSE [s EXCEPT !.r.textures[index] = texture]
             f == FetchSamplerState(
                      [t EXCEPT !.r.textureParams[texture] = sampler], sampler, fail)
         IN
         \* &vkSamplerState against a pointer that is uninitialised or dangles
         IF junk
         THEN [f EXCEPT !.r.samplers[index] = LocalSampler,
                        !.r.samplerNeedsUpdate[index] = 1]
         ELSE f

(***************************************************************************)
(* The resource binding tracker                                            *)
(***************************************************************************)
\* textureNeedsUpdate[i] || samplerNeedsUpdate[i]
NeedsUpdate(s, i, junk) ==
    \/ Differs(s.r.textureNeedsUpdate[i], 0, junk)
    \/ Differs(s.r.samplerNeedsUpdate[i], 0, junk)

\* one of the two loops of BindResources over the slots arrayOffset + i,
\* from i on: a slot to rewrite reads textures[..]->imageView and
\* *samplers[..], stages a write whose pImageInfo is the element after the
\* one filled, and clears the flags of slot arrayOffset + 1
RECURSIVE StageSamplers(_, _, _, _, _, _)
StageSamplers(s, arrayOffset, i, count, junk, ub) ==
    IF s.g.crashed \/ i >= count THEN s
    ELSE IF ~NeedsUpdate(s, arrayOffset + i, junk)
    THEN StageSamplers(s, arrayOffset, i + 1, count, junk, ub)
    ELSE LET d == IF \/ s.r.textures[arrayOffset + i] = Uninit
                     \/ s.r.samplers[arrayOffset + i] \in {Uninit, NULL, LocalSampler}
                  THEN Invalid(s, ub, "bindings") ELSE s
             filled == Len(SelectSeq(d.e.staged, LAMBDA w : w.type = "sampler"))
             w == [d EXCEPT
                     !.e.staged = Append(@,
                         [type |-> "sampler",
                          dstSet |-> "vertexSamplerDescriptorSets",
                          element |-> arrayOffset + i,
                          dstBinding |-> i,
                          imageInfo |-> filled,
                          pImageInfo |-> filled + 1]),
                     !.r.textureNeedsUpdate[arrayOffset + 1] = 0,
                     !.r.samplerNeedsUpdate[arrayOffset + 1] = 0]
         IN
         IF d.g.crashed THEN d
         ELSE StageSamplers(w, arrayOffset, i + 1, count, junk, ub)

\* the uniform buffer of one stage against the last-draw cache
StageUniform(s, dstSet, buffer, offset, ldBuffer, ldOffset, junk) ==
    IF Differs(ldBuffer, buffer, junk) \/ Differs(ldOffset, offset, junk)
    THEN [s EXCEPT !.e.staged = Append(@,
             [type |-> "uniform", dstSet |-> dstSet,
              element |-> s.r.currentSwapChainIndex, dstBinding |-> 0,
              imageInfo |-> 0, pImageInfo |-> 0])]
    ELSE s

\* uniforms: what MOJOSHADER_vkGetUniformBuffers returns
BindResources(s, uniforms, junk, fail, ub) ==
    LET k == s.r.currentSwapChainIndex
        v == StageSamplers([s EXCEPT !.e.staged = <<>>],
                           k * MAX_VERTEXTEXTURE_SAMPLERS, 0,
                           MAX_VERTEXTEXTURE_SAMPLERS, junk, ub)
        f == StageSamplers(v, k * MAX_TEXTURE_SAMPLERS, 0,
                           MAX_TEXTURE_SAMPLERS, junk, ub)
    IN
    IF f.g.crashed THEN f
    ELSE
    LET vu == StageUniform(f, "vertexUniformBufferDescriptorSets",
                           uniforms.vUniform, uniforms.vOff,
                           f.r.ldVertUniformBuffers[k],
                           f.r.ldVertUniformOffsets[k], junk)
        vl == IF Len(vu.e.staged) > Len(f.e.staged)
              THEN [vu EXCEPT !.r.ldVertUniformBuffers[k] = uniforms.vUniform,
                              !.r.ldVertUniformOffsets[k] = uniforms.vOff]
              ELSE vu
        fu == StageUniform(vl, "fragUniformBufferDescriptorSets",
                           uniforms.fUniform, uniforms.fOff,
                           vl.r.ldFragUniformBuffers[k],
                           vl.r.ldFragUniformOffsets[k], junk)
        fl == IF Len(fu.e.staged) > Len(vl.e.staged)
              THEN [fu EXCEPT !.r.ldFragUniformBuffers[k] = uniforms.fUniform,
                              !.r.ldFragUniformOffsets[k] = uniforms.fOff]
              ELSE fu
        u == [fl EXCEPT !.e.descriptorUpdates = Append(@, Len(fl.e.staged))]
    IN
    IF u.r.currentPipelineHash # GetPipelineHash(u)
    THEN BindPipeline(u, fail, ub)
    ELSE u

\* vkCmdDraw / vkCmdDrawIndexed into commandBuffers[commandBufferCount - 1]
RecordDraw(s, ub) ==
    IF s.g.crashed THEN s
    ELSE [RecordCommand(s, "vkCmdDraw", ub) EXCEPT !.e.drew = TRUE]

DrawPrimitives(s, primitiveType, fail, ub) ==
    RecordDraw(CheckPrimitiveTypeAndBindPipeline(s, primitiveType, fail, ub), ub)

(***************************************************************************)
(* DynamicBufferAllocator                                                  *)
(***************************************************************************)
Bytes == 0 .. (MaxBytes - 1)
Overlap(lo1, hi1, lo2, hi2) == lo1 < hi2 /\ lo2 < hi1 /\ lo1 < hi1 /\ lo2 < hi2

\* SDL_memcpy(contents + dst, src, len) into buffer id; src[i] is byte i of
\* the source, srcEnd the end of the source when it is the contents themselves
Memcpy(s, id, dst, src, len, srcEnd, ub) ==
    LET o == s.b.obj[id] IN
    IF s.g.crashed \/ len = 0 THEN s
    ELSE IF (dst + len > o.alloc \/ srcEnd > o.alloc) /\ ub = "trap" THEN Trap(s)
    ELSE [s EXCEPT
            !.g.ub = IF dst + len > o.alloc \/ srcEnd > o.alloc
                     THEN @ \cup {"contents"} ELSE @,
            !.b.obj[id].contents =
                [i \in Bytes |-> IF dst <= i /\ i < dst + len THEN src[i - dst] ELSE @[i]],
            !.e.writes = @ \cup {[buf |-> id, lo |-> dst, hi |-> dst + len]},
            !.e.racedWrite = @ \/ \E p \in s.g.pendingReads :
                                    /\ p.buf = id
                                    /\ p.handle = o.handle
                                    /\ Overlap(dst, dst + len, p.lo, p.hi)]

CreateBackingBuffer(s, id, previousSize) ==
    LET o == s.b.obj[id]
        handle == s.g.buffersCreated + 1
        contents == [i \in Bytes |->
                        IF o.handle # NULL /\ i < SizeofVkDeviceSize
                        THEN o.contents[i] ELSE 0]
    IN
    [s EXCEPT !.g.buffersCreated = handle,
              !.g.destroyedNatives =
                  IF o.handle = NULL THEN @
                  ELSE @ \cup {[kind |-> "buffer", id |-> o.handle]},
              !.b.obj[id].handle = handle,
              !.b.obj[id].contents = contents,
              !.b.obj[id].alloc = SizeofVkDeviceSize,
              !.e.reallocs = IF o.handle = NULL THEN @
                             ELSE @ \cup {[buf |-> id,
                                           previousSize |-> previousSize,
                                           newSize |-> o.internalBufferSize,
                                           liveEnd |-> o.liveEnd,
                                           lost |-> {i \in Bytes : i < o.liveEnd
                                                        /\ contents[i] # o.contents[i]}]}]

\* the world after CreateBuffer; the object returned is the last of b.list
CreateBuffer(s, size, usageFlags) ==
    LET id == Cardinality(DOMAIN s.b.obj) + 1
        result == [usageFlags |-> usageFlags,
                   size |-> size,
                   internalBufferSize |-> size,
                   internalOffset |-> 0,
                   prevInternalOffset |-> 0,
                   prevDataLength |-> 0,
                   boundThisFrame |-> 0,
                   handle |-> NULL,
                   contents |-> [i \in Bytes |-> 0],
                   alloc |-> 0,
                   liveEnd |-> 0,
                   prevWrite |-> NoPrevWrite]
        n == [s EXCEPT !.b.obj = [j \in DOMAIN @ \cup {id} |->
                                     IF j = id THEN result ELSE @[j]]]
    IN
    [CreateBackingBuffer(n, id, -1) EXCEPT !.b.list = Append(@, id)]


\* the data memcpy of SetBufferData / SetUserBufferData and its bookkeeping
WriteData(s, id, options, boundBefore, lo, len, fits, ub) ==
    LET o == s.b.obj[id]
        w == Memcpy(s, id, lo, [i \in Bytes |-> 1], len, 0, ub)
    IN
    IF w.g.crashed THEN w
    ELSE [w EXCEPT
            !.e.write = [done |-> TRUE, buf |-> id, options |-> options,
                         boundBefore |-> boundBefore,
                         idle |-> s.e.idleWaits > 0,
                         cursor |-> o.internalOffset,
                         lo |-> lo, hi |-> lo + len, fits |-> fits,
                         prev |-> o.prevWrite],
            !.b.obj[id].liveEnd = lo + len,
            !.b.obj[id].prevWrite = [valid |-> TRUE,
                                     options |-> options,
                                     cursor |-> o.internalOffset,
                                     lo |-> lo, hi |-> lo + len, fits |-> fits]]

\* the cursor of a DISCARD write to a buffer bound this frame
DiscardCursor_Stay(o) == o.internalOffset
DiscardCursor(o) == o.internalOffset + o.size

SetBufferData(s, id, offsetInBytes, dataLength, options, fail, ub) ==
    LET o == s.b.obj[id]
        a == IF o.boundThisFrame = 0 THEN s
             ELSE IF options = FNA3D_SETDATAOPTIONS_NONE
             THEN [Stall(s, fail) EXCEPT !.b.obj[id].boundThisFrame = 1]
             ELSE IF options = FNA3D_SETDATAOPTIONS_DISCARD
             THEN LET internalOffset == DiscardCursor(o)
                      sizeRequired == internalOffset + dataLength
                      d == [s EXCEPT !.b.obj[id].internalOffset = internalOffset]
                  IN
                  IF sizeRequired > o.internalBufferSize
                  THEN CreateBackingBuffer(
                           [d EXCEPT !.b.obj[id].internalBufferSize = @ * 2],
                           id, o.internalBufferSize)
                  ELSE d
             ELSE s
        v == a.b.obj[id]
        c == IF dataLength < v.size /\ v.prevInternalOffset # v.internalOffset
             THEN Memcpy(a, id, v.internalOffset,
                         [i \in Bytes |-> IF v.prevInternalOffset + i < MaxBytes
                                          THEN v.contents[v.prevInternalOffset + i]
                                          ELSE 0],
                         v.size, v.prevInternalOffset + v.size, ub)
             ELSE a
        w == WriteData(c, id, options, o.boundThisFrame,
                       v.internalOffset + offsetInBytes, dataLength,
                       offsetInBytes + dataLength <= v.size, ub)
    IN
    IF w.g.crashed THEN w
    ELSE [w EXCEPT !.b.obj[id].prevInternalOffset = v.internalOffset]

SetUserBufferData_NoAdvance(s, id, dataLength, ub) ==
    LET o == s.b.obj[id]
        w == WriteData(s, id, UserBufferAppend, o.boundThisFrame,
                       o.internalOffset, dataLength, TRUE, ub)
    IN
    IF w.g.crashed THEN w
    ELSE [w EXCEPT !.b.obj[id].prevDataLength = dataLength]

SetUserBufferData(s, id, dataLength, ub) ==
    LET o == s.b.obj[id]
        internalOffset == o.internalOffset + o.prevDataLength
        sizeRequired == internalOffset + dataLength
        d == [s EXCEPT !.b.obj[id].internalOffset = internalOffset]
        a == IF sizeRequired > o.internalBufferSize
             THEN CreateBackingBuffer(
                      [d EXCEPT !.b.obj[id].internalBufferSize =
                                    Max(@ * 2, @ + dataLength)],
                      id, o.internalBufferSize)
             ELSE d
        w == WriteData(a, id, UserBufferAppend, o.boundThisFrame,
                       internalOffset, dataLength, TRUE, ub)
    IN
    IF w.g.crashed THEN w
    ELSE [w EXCEPT !.b.obj[id].prevDataLength = dataLength]

\* the vertex buffer of user draws; userVertexStride is never assigned, so
\* len = vertexCount * 0
BindUserVertexBuffer(s, vertexCount, junk, ub) ==
    LET len == vertexCount * s.r.userVertexStride
        c == IF s.r.userVertexBuffer = NULL
             THEN LET n == CreateBuffer(s, len, "VERTEX") IN
                  [n EXCEPT !.r.userVertexBuffer = n.b.list[Len(n.b.list)]]
             ELSE s
        u == SetUserBufferData(c, c.r.userVertexBuffer, len, ub)
    IN
    IF u.g.crashed THEN u
    ELSE LET offset == u.b.obj[u.r.userVertexBuffer].internalOffset
             handle == u.b.obj[u.r.userVertexBuffer].handle
         IN
         IF \/ Differs(u.r.ldVertexBuffers[0], handle, junk)
            \/ Differs(u.r.ldVertexBufferOffsets[0], offset, junk)
         THEN LET c2 == RecordCommand(u, "vkCmdBindVertexBuffers", ub) IN
              IF c2.g.crashed THEN c2
              ELSE [c2 EXCEPT !.r.ldVertexBuffers[0] = handle,
                              !.r.ldVertexBufferOffsets[0] = offset]
         ELSE u

\* the draw recorded last reads [lo, hi) of buffer id
RecordRead(s, id, lo, hi) ==
    IF s.g.crashed \/ s.r.commandBufferCount = 0 THEN s
    ELSE [s EXCEPT !.g.pendingReads = @ \cup
                       {[buf |-> id, handle |-> s.b.obj[id].handle,
                         lo |-> lo, hi |-> hi, submitted |-> FALSE]}]

DrawInstancedPrimitives(s, primitiveType, indices, fail, ub) ==
    LET b == [s EXCEPT !.b.obj[indices].boundThisFrame = 1]
        p == CheckPrimitiveTypeAndBindPipeline(b, primitiveType, fail, ub)
        o == p.b.obj[indices]
    IN
    RecordRead(RecordDraw(p, ub), indices, o.internalOffset, o.internalOffset + o.size)

DrawIndexedPrimitives(s, primitiveType, indices, fail, ub) ==
    DrawInstancedPrimitives(s, primitiveType, indices, fail, ub)

\* VULKAN_DrawUserIndexedPrimitives past CheckPrimitiveTypeAndBindPipeline: the
\* index buffer is bound at its internalOffset and the draw is recorded
UserIndexDrawn(p, len, ub) ==
    RecordRead(RecordDraw(p, ub), p.r.userIndexBuffer,
               p.b.obj[p.r.userIndexBuffer].internalOffset,
               p.b.obj[p.r.userIndexBuffer].internalOffset + len)

\* VULKAN_DrawUserIndexedPrimitives once renderer->userIndexBuffer exists
UserIndexWritten(c, primitiveType, len, fail, ub) ==
    UserIndexDrawn(
        CheckPrimitiveTypeAndBindPipeline(
            SetUserBufferData(c, c.r.userIndexBuffer, len, ub),
            primitiveType, fail, ub),
        len, ub)

\* renderer->userIndexBuffer = CreateBuffer(...)
UserIndexBufferCreated(n) ==
    [n EXCEPT !.r.userIndexBuffer = n.b.list[Len(n.b.list)]]

\* VULKAN_DrawUserIndexedPrimitives past BindUserVertexBuffer
UserVertexBound(v, primitiveType, len, fail, ub) ==
    IF v.g.crashed THEN v
    ELSE IF v.r.userIndexBuffer = NULL
    THEN UserIndexWritten(UserIndexBufferCreated(CreateBuffer(v, len, "INDEX")),
                          primitiveType, len, fail, ub)
    ELSE UserIndexWritten(v, primitiveType, len, fail, ub)

DrawUserIndexedPrimitives(s, primitiveType, numVertices, len, junk, fail, ub) ==
    UserVertexBound(BindUserVertexBuffer(s, numVertices, junk, ub),
                    primitiveType, len, fail, ub)

DrawUserPrimitives(s, primitiveType, numVerts, junk, fail, ub) ==
    LET v == BindUserVertexBuffer(s, numVerts, junk, ub) IN
    RecordDraw(CheckPrimitiveTypeAndBindPipeline(v, primitiveType, fail, ub), ub)


(***************************************************************************)
(* Disposal and teardown                                                   *)
(***************************************************************************)
\* LinkedList_Remove(renderer->buffers, vulkanBuffer, curr, prev)
LinkedList_Remove(list, toRemove) ==
    SelectSeq(list, LAMBDA curr : curr # toRemove)

\* the buffer is unlinked, its native buffer destroyed, the object freed
DestroyBuffer(s, id) ==
    [Destroy(s, {[kind |-> "buffer", id |-> s.b.obj[id].handle]}) EXCEPT
        !.b.list = LinkedList_Remove(@, id),
        !.b.disposed = @ \cup {id},
        !.e.dispose = [done |-> TRUE, buf |-> id, handle |-> s.b.obj[id].handle]]

\* the body of VULKAN_AddDisposeIndexBuffer is empty
AddDisposeIndexBuffer(s, id) ==
    [s EXCEPT !.b.disposed = @ \cup {id},
              !.e.dispose = [done |-> TRUE, buf |-> id, handle |-> s.b.obj[id].handle]]

\* the entries of the three hash maps VULKAN_DestroyDevice walks
WalkedEntries(s) ==
    {[kind |-> "framebuffer", id |-> p.value] : p \in s.r.framebufferHashMap}
        \cup {[kind |-> "pipeline", id |-> p.value] : p \in s.r.pipelineHashMap}
        \cup {[kind |-> "renderPass", id |-> p.value] : p \in s.r.renderPassHashMap}

\* VULKAN_DestroyDevice past its fence wait; a framebuffer entry inserted
\* after a failed vkCreateFramebuffer holds an indeterminate handle
DeviceDestroyed(s, ub) ==
    LET garbage == \E p \in s.r.framebufferHashMap : p.value = GarbageHandle IN
    IF s.g.hung THEN s
    ELSE IF garbage /\ ub = "trap" THEN Trap(s)
    ELSE [Destroy(s, WalkedEntries(s)) EXCEPT
             !.g.ub = IF garbage THEN @ \cup {"framebuffer"} ELSE @,
             !.g.destroyed = TRUE,
             !.e.teardown = TRUE]

DestroyDevice(s, ub) == DeviceDestroyed(WaitForFence(s), ub)

(***************************************************************************)
(* The state machine                                                       *)
(***************************************************************************)
\* the device is created with one of the given depth-stencil formats
InitWith(depthFormats) ==
    /\ renderer \in {InitRenderer(f) : f \in depthFormats}
    /\ buffers = [list |-> <<>>, obj |-> <<>>, disposed |-> {}]
    /\ gpu = InitGpu
    /\ ev = NoEvents

\* the process is alive and not blocked inside a call
Running == ~gpu.crashed /\ ~gpu.hung

\* the part of the behaviours the model explores
WithinBounds(t) ==
    /\ Cardinality(DOMAIN t.b.obj) <= MaxBuffers
    /\ Cardinality(t.g.nativePipelines) <= MaxPipelines
    /\ t.r.commandBufferCount <= MaxCommandBuffers
    /\ \A id \in DOMAIN t.b.obj :
          /\ t.b.obj[id].internalBufferSize <= MaxBytes
          /\ t.b.obj[id].internalOffset + t.b.obj[id].size <= MaxBytes
    /\ \A w \in t.e.writes : w.hi <= MaxBytes

CallWithin(t, budget) ==
    /\ Running
    /\ ~gpu.destroyed
    /\ gpu.calls < budget
    /\ WithinBounds(t)
    /\ Commit([t EXCEPT !.g.calls = @ + 1])

Call(t) == CallWithin(t, MaxCalls)

\* the buffers the application holds
AppBuffers(usageFlags) ==
    {id \in DOMAIN buffers.obj :
        /\ buffers.obj[id].usageFlags = usageFlags
        /\ id # renderer.userVertexBuffer
        /\ id # renderer.userIndexBuffer
        /\ id \notin buffers.disposed}

(* The public entry points.  An action takes the sets its inputs are drawn *)
(* from: the outcomes of the native calls the handler makes, and the       *)
(* values the application passes.                                          *)
VULKAN_BeginFrame(outcomes) ==
    \E fail \in outcomes :
        Call(BeginFrame(Start, fail))

VULKAN_SwapBuffers(outcomes) ==
    \E fail \in outcomes, ub \in UBOutcomes :
        Call(SwapBuffers(Start, fail, ub))

VULKAN_Clear(optionSets) ==
    \E options \in optionSets, ub \in UBOutcomes :
        Call(Clear(Start, options, ub))

VULKAN_SetRenderTargets(targets, outcomes) ==
    \E toBackbuffer \in targets, fail \in outcomes, ub \in UBOutcomes :
        Call(SetRenderTargets(Start, toBackbuffer, fail, ub))

VULKAN_ApplyRasterizerState(outcomes) ==
    \E rasterizerState \in RasterizerStates, fail \in outcomes, ub \in UBOutcomes :
        Call(ApplyRasterizerState(Start, rasterizerState, fail, ub))

VULKAN_SetViewport ==
    \E viewport \in Viewports, ub \in UBOutcomes :
        Call(SetViewport(Start, viewport, ub))

VULKAN_VerifySampler(indices, textures, outcomes) ==
    \E index \in indices, texture \in textures, sampler \in SamplerStates,
       junk \in BOOLEAN, fail \in outcomes :
        Call(VerifySampler(Start, index, texture, sampler, junk, fail))

\* BindResources, which no entry point calls, applied on its own
ApplyBindResources ==
    \E uniforms \in UniformBuffers, junk \in BOOLEAN, ub \in UBOutcomes :
        Call(BindResources(Start, uniforms, junk, "none", ub))

\* the swapchain settles which image vkAcquireNextImageKHR hands out next
SwapchainOffers ==
    \E imageIndex \in 0..(SwapChainImageCount - 1) :
        /\ Running
        /\ imageIndex # gpu.nextImage
        /\ gpu' = [gpu EXCEPT !.nextImage = imageIndex]
        /\ UNCHANGED <<renderer, buffers, ev>>

VULKAN_DrawPrimitives(primitiveTypes, outcomes) ==
    \E primitiveType \in primitiveTypes, fail \in outcomes, ub \in UBOutcomes :
        Call(DrawPrimitives(Start, primitiveType, fail, ub))

VULKAN_DrawIndexedPrimitives(primitiveTypes, outcomes) ==
    \E primitiveType \in primitiveTypes, indices \in AppBuffers("INDEX"),
       fail \in outcomes, ub \in UBOutcomes :
        Call(DrawIndexedPrimitives(Start, primitiveType, indices, fail, ub))

VULKAN_DrawUserIndexedPrimitives(primitiveTypes, outcomes) ==
    \E primitiveType \in primitiveTypes, len \in DataLengths,
       junk \in BOOLEAN, fail \in outcomes, ub \in UBOutcomes :
        Call(DrawUserIndexedPrimitives(Start, primitiveType, 3, len, junk, fail, ub))

VULKAN_DrawUserPrimitives(primitiveTypes, outcomes) ==
    \E primitiveType \in primitiveTypes, junk \in BOOLEAN,
       fail \in outcomes, ub \in UBOutcomes :
        Call(DrawUserPrimitives(Start, primitiveType, 3, junk, fail, ub))

VULKAN_GenVertexBuffer ==
    \E size \in BufferSizes :
        Call(CreateBuffer(Start, size, "VERTEX"))

VULKAN_GenIndexBuffer ==
    \E size \in BufferSizes :
        Call(CreateBuffer(Start, size, "INDEX"))

VULKAN_SetVertexBufferData(setDataOptions, outcomes) ==
    \E id \in AppBuffers("VERTEX"), offsetInBytes \in ByteOffsets,
       dataLength \in DataLengths, options \in setDataOptions,
       fail \in outcomes, ub \in UBOutcomes :
        Call(SetBufferData(Start, id, offsetInBytes, dataLength, options, fail, ub))

VULKAN_SetIndexBufferData(setDataOptions, outcomes) ==
    \E id \in AppBuffers("INDEX"), offsetInBytes \in ByteOffsets,
       dataLength \in DataLengths, options \in setDataOptions,
       fail \in outcomes, ub \in UBOutcomes :
        Call(SetBufferData(Start, id, offsetInBytes, dataLength, options, fail, ub))

VULKAN_AddDisposeVertexBuffer ==
    \E id \in AppBuffers("VERTEX") :
        Call(DestroyBuffer(Start, id))

VULKAN_AddDisposeIndexBuffer ==
    \E id \in AppBuffers("INDEX") :
        Call(AddDisposeIndexBuffer(Start, id))

VULKAN_DestroyDevice ==
    \E ub \in UBOutcomes :
        Call(DestroyDevice(Start, ub))

\* the GPU finishes the submitted work on its own time
GpuFinish ==
    /\ gpu.fenceArmed
    /\ Running
    /\ Commit(GpuComplete(Start))

NoFailure == {"none"}

Init == InitWith(DepthFormats)

\* pipeline binding in the pass / frame engine; the pipeline creation can fail
Next ==
    \/ VULKAN_SwapBuffers(NoFailure)
    \/ VULKAN_Clear(ClearOptionSets)
    \/ VULKAN_SetRenderTargets({TRUE}, NoFailure)
    \/ VULKAN_ApplyRasterizerState(BindOutcomes)
    \/ VULKAN_DrawPrimitives(PrimitiveTypes, BindOutcomes)

Spec == Init /\ [][Next]_vars

\* the four object caches; every native creation can fail
CacheNext ==
    \/ VULKAN_Clear(ClearOptionSets)
    \/ VULKAN_SetRenderTargets(BOOLEAN, PassOutcomes)
    \/ VULKAN_DrawPrimitives(PrimitiveTypes, BindOutcomes)
    \/ VULKAN_VerifySampler({0}, Textures, SamplerOutcomes)

CacheSpec == Init /\ [][CacheNext]_vars

\* the dynamic index buffers: writes, the draws reading them, the frames
\* that submit the draws and the GPU that retires them; the submission and
\* the wait of a stall can fail
BufferInit == InitWith({FNA3D_DEPTHFORMAT_NONE})

BufferNext ==
    \/ VULKAN_SwapBuffers(NoFailure)
    \/ VULKAN_DrawIndexedPrimitives({0}, NoFailure)
    \/ VULKAN_GenIndexBuffer
    \/ VULKAN_SetIndexBufferData(
           SetDataOptions, StallOutcomes)
    \/ GpuFinish

BufferSpec == BufferInit /\ [][BufferNext]_vars

\* the pass / frame engine: frames, render passes and the command buffers
\* they record into; every native call of the engine can fail
FrameNext ==
    \/ VULKAN_BeginFrame(BeginFrameOutcomes)
    \/ VULKAN_SwapBuffers(FrameOutcomes)
    \/ VULKAN_Clear(FrameClearOptionSets)
    \/ VULKAN_SetRenderTargets({TRUE}, FrameOutcomes)
    \/ VULKAN_SetViewport
    \/ VULKAN_DrawPrimitives({0}, NoFailure)

FrameSpec == Init /\ [][FrameNext]_vars

\* the pass / frame engine with the GPU, which finishes every batch that was
\* submitted; the application may stop calling at any time
\* frames that switch between the back buffer and application render targets;
\* no native call fails
PassNext ==
    \/ \E ub \in UBOutcomes :
           CallWithin(SwapBuffers(Start, "none", ub), MaxPassCalls)
    \/ \E options \in ClearOptionSets, ub \in UBOutcomes :
           CallWithin(Clear(Start, options, ub), MaxPassCalls)
    \/ \E toBackbuffer \in BOOLEAN, ub \in UBOutcomes :
           CallWithin(SetRenderTargets(Start, toBackbuffer, "none", ub), MaxPassCalls)

PassSpec == Init /\ [][PassNext]_vars

\* draws from application memory through the user vertex and index buffers,
\* across frames and stalls
UserBufferNext ==
    \/ VULKAN_SwapBuffers(NoFailure)
    \/ VULKAN_DrawUserIndexedPrimitives({0}, NoFailure)
    \/ VULKAN_DrawUserPrimitives({0}, NoFailure)
    \/ VULKAN_GenIndexBuffer
    \/ VULKAN_DrawIndexedPrimitives({0}, NoFailure)
    \/ VULKAN_SetIndexBufferData({FNA3D_SETDATAOPTIONS_NONE}, NoFailure)

UserBufferSpec == BufferInit /\ [][UserBufferNext]_vars

LiveNext ==
    \/ FrameNext
    \/ GpuFinish

LiveSpec == Init /\ [][LiveNext]_vars /\ WF_vars(GpuFinish)

\* the lifetime of the native objects: the caches fill, buffers are
\* created, written, drawn from and disposed, and the device is destroyed
TeardownNext ==
    \/ VULKAN_SwapBuffers(NoFailure)
    \/ VULKAN_SetRenderTargets({TRUE}, {"none", "vkCreateFramebuffer"})
    \/ VULKAN_Clear(ClearOptionSets)
    \/ VULKAN_DrawPrimitives({0}, NoFailure)
    \/ VULKAN_VerifySampler({0}, Textures, NoFailure)
    \/ VULKAN_GenVertexBuffer
    \/ VULKAN_GenIndexBuffer
    \/ VULKAN_AddDisposeVertexBuffer
    \/ VULKAN_AddDisposeIndexBuffer
    \/ VULKAN_DestroyDevice

TeardownSpec == BufferInit /\ [][TeardownNext]_vars

\* the resource binding tracker: the slots VULKAN_VerifySampler binds, the
\* passes that mark them, the frames that move the frame in flight, and
\* BindResources
DescriptorNext ==
    \/ VULKAN_VerifySampler(SamplerIndices, TextureArguments, NoFailure)
    \/ VULKAN_Clear(ClearOptionSets)
    \/ VULKAN_SetRenderTargets({TRUE}, {"none", "vkBeginCommandBuffer"})
    \/ VULKAN_DrawUserPrimitives({0}, NoFailure)
    \/ ApplyBindResources
    \/ SwapchainOffers

DescriptorSpec == BufferInit /\ [][DescriptorNext]_vars


(***************************************************************************)
(* Properties of the object caches and of pipeline binding                 *)
(***************************************************************************)
OnePerKey(natives) == \A p, q \in natives : p.key = q.key => p = q

CacheKept(m, n) == \A p \in m : p \in n

\* C2: in each of the four caches there is at most one entry and at most one
\* native object per key, and an entry, once inserted, is never overwritten,
\* replaced or removed.
C2_CacheEntriesStable ==
    /\ [](/\ OnePerKey(gpu.nativePipelines)
          /\ OnePerKey(gpu.nativeRenderPasses)
          /\ OnePerKey(gpu.nativeFramebuffers)
          /\ OnePerKey(gpu.nativeSamplers)
          /\ \A m \in {renderer.pipelineHashMap, renderer.samplerStateHashMap} :
                \A p, q \in m : p.key = q.key => p = q
          /\ \A m \in {renderer.renderPassHashMap, renderer.framebufferHashMap} :
                \A p, q \in m : p.key = q.key => p = q)
    /\ [][/\ CacheKept(renderer.pipelineHashMap, renderer'.pipelineHashMap)
          /\ CacheKept(renderer.renderPassHashMap, renderer'.renderPassHashMap)
          /\ CacheKept(renderer.framebufferHashMap, renderer'.framebufferHashMap)
          /\ CacheKept(renderer.samplerStateHashMap, renderer'.samplerStateHashMap)]_vars

\* every cache holds an entry and the state was reached by further calls
C2_Witness ==
    /\ renderer.pipelineHashMap # {}
    /\ renderer.renderPassHashMap # {}
    /\ renderer.framebufferHashMap # {}
    /\ renderer.samplerStateHashMap # {}
    /\ gpu.calls = MaxCalls

\* C3: when the native creation fails inside FetchPipeline, FetchRenderPass,
\* FetchFramebuffer or FetchSamplerState, the call leaves that cache as it was.
C3_FailedCreationLeavesCache ==
    [][/\ "pipeline" \in ev'.createFailed =>
             renderer'.pipelineHashMap = renderer.pipelineHashMap
       /\ "renderPass" \in ev'.createFailed =>
             renderer'.renderPassHashMap = renderer.renderPassHashMap
       /\ "framebuffer" \in ev'.createFailed =>
             renderer'.framebufferHashMap = renderer.framebufferHashMap
       /\ "sampler" \in ev'.createFailed =>
             renderer'.samplerStateHashMap = renderer.samplerStateHashMap]_vars

\* C4: at a draw recorded inside a render pass, with no native call having
\* failed, the pipeline bound last in the current command buffer is the
\* cached pipeline of the current PipelineKey.
C4_DrawUsesPipelineOfCurrentKey ==
    ev.drew /\ renderer.renderPassInProgress = 1 /\ gpu.failures = 0 /\ gpu.ub = {} =>
        /\ gpu.cbPipelineBound
        /\ HmHas(renderer.pipelineHashMap, GetPipelineHash(World))
        /\ gpu.cbPipeline = HmGet(renderer.pipelineHashMap, GetPipelineHash(World))


(***************************************************************************)
(* Properties of the dynamic buffers                                       *)
(***************************************************************************)
WroteWith(options) == ev.write.done /\ ev.write.options = options

\* C5: a SetBufferData with FNA3D_SETDATAOPTIONS_NONE on a buffer whose
\* boundThisFrame is set writes its bytes only after the recorded command
\* buffers were submitted and a wait for the queue to idle completed.
C5_OverwriteStallsBeforeWriting ==
    /\ WroteWith(FNA3D_SETDATAOPTIONS_NONE)
    /\ ev.write.boundBefore = 1
    /\ gpu.ub = {}
    => ev.write.idle

\* C6: no CPU write of SetBufferData touches a byte range of a buffer that a
\* draw recorded or submitted, and not yet completed by the GPU, reads.
C6_NoWriteUnderPendingRead ==
    gpu.ub = {} => ~ev.racedWrite

C8_GrowthFitsTheWrite ==
    WroteWith(FNA3D_SETDATAOPTIONS_DISCARD) /\ ev.reallocs # {} /\ ~ev.ubBefore =>
        /\ Cardinality(ev.reallocs) = 1
        /\ \A r \in ev.reallocs :
              /\ r.newSize >= r.previousSize
              /\ r.newSize >= ev.write.cursor + (ev.write.hi - ev.write.lo)

\* C9: a reallocation keeps, at the same offsets, every byte of the old
\* contents in [0, previous cursor + previous length), when that range lies
\* inside the old internalBufferSize and no invalid access other than to the
\* contents has occurred.
C9_ReallocationKeepsLiveBytes ==
    \A r \in ev.reallocs :
        r.liveEnd <= r.previousSize /\ gpu.ub \subseteq {"contents"} => r.lost = {}

\* C10: when VULKAN_BeginFrame starts a new frame, every buffer of the
\* renderer's list has boundThisFrame = 0.
C10_NewFrameStartsUnbound ==
    ev.newFrame.started /\ gpu.ub = {} => ev.newFrame.bound = {}


(***************************************************************************)
(* Properties of the pass / frame engine                                   *)
(***************************************************************************)
\* C11: at every return of BeginRenderPass a render pass is in progress,
\* commandBufferCount >= 1, and the current command buffer is allocated,
\* recording, and has a native render pass begun in it.
C11_BeginRenderPassLeavesPassActive ==
    ev.passBegin.returned =>
        /\ ev.passBegin.renderPassInProgress = 1
        /\ ev.passBegin.commandBufferCount >= 1
        /\ ev.passBegin.state = "recording"
        /\ ev.passBegin.inPass

\* C12: EndPass, applied in any reachable state of a running process: with
\* no pass in progress or no command buffer it records nothing and changes
\* nothing; otherwise it
\* records the end of the render pass into the current command buffer, ends
\* the recording of that command buffer and clears renderPassInProgress, and
\* a second EndPass right after changes nothing.
C12_EndPassOnlyEndsAnActivePass ==
    LET e == EndPass(Start)
        f == EndPass(e)
        n == renderer.commandBufferCount
    IN
    Running =>
    /\ renderer.renderPassInProgress = 0 \/ n = 0 =>
          /\ e.r = renderer /\ e.g = gpu /\ e.b = buffers
          /\ e.e.records = {}
    /\ renderer.renderPassInProgress = 1 /\ n > 0 =>
          /\ e.r = [renderer EXCEPT !.renderPassInProgress = 0]
          /\ \E c \in e.e.records : /\ c.cmd = "vkCmdEndRenderPass"
                                    /\ c.commandBufferCount = n
          /\ gpu.commandBuffers[n].state = "recording" =>
                e.g.commandBuffers[n].state = "executable"
          /\ ~e.g.commandBuffers[n].inPass
          /\ f.r = e.r /\ f.g = e.g /\ f.b = e.b
          /\ f.e.records = e.e.records

\* a call in which EndPass ended a pass that was in progress
C12_Witness ==
    /\ "ended" \in ev.endPasses
    /\ renderer.renderPassInProgress = 0
    /\ \E c \in ev.records : c.cmd = "vkCmdEndRenderPass" /\ c.inPass

\* C13: when VULKAN_SwapBuffers returns after its vkQueueSubmit succeeded,
\* no frame and no render pass is in progress.
C13_SwapBuffersEndsTheFrame ==
    ev.swapped =>
        /\ renderer.frameInProgress = 0
        /\ renderer.renderPassInProgress = 0

\* a SwapBuffers that ended the render pass of the frame and submitted
C13_Witness ==
    /\ ev.swapped
    /\ "ended" \in ev.endPasses
    /\ \E m \in ev.submits : m.by = "VULKAN_SwapBuffers"

\* C14: with a frame in progress VULKAN_BeginFrame waits for no fence, resets
\* neither the fence nor the command pool, acquires no image and leaves
\* commandBufferCount and the rest of the state as they are.
C14_BeginFrameIdempotentInFrame ==
    renderer.frameInProgress = 1 =>
        \A fail \in BeginFrameOutcomes :
            LET t == BeginFrame(Start, fail) IN
            /\ t.r = renderer /\ t.g = gpu /\ t.b = buffers
            /\ t.e.frameSteps = <<>>

\* VULKAN_BeginFrame was called with a frame in progress
C14_Witness ==
    /\ "active" \in ev.beginFrames
    /\ ev.frameSteps = <<>>
    /\ renderer.frameInProgress = 1
    /\ renderer.commandBufferCount >= 1

\* C15: a command buffer that was submitted is reset with its pool, or begun
\* again, only after renderQueueFence was waited on and reset since that
\* submission; and VULKAN_BeginFrame waits on the fence, resets it, resets
\* the pool, acquires the image and only then zeroes commandBufferCount.
C15_FenceBeforeReuse ==
    /\ ~ev.unfencedReuse
    /\ \A n \in 1..Len(ev.frameSteps) :
          ev.frameSteps[n] =
              <<"vkWaitForFences", "vkResetFences", "vkResetCommandPool",
                "vkAcquireNextImageKHR", "commandBufferCount">>[n]

\* C16: every submission that contains the blit command buffer waits on
\* imageAvailableSemaphore and signals renderFinishedSemaphore, and every
\* present waits on renderFinishedSemaphore after that submission succeeded
\* in the same VULKAN_SwapBuffers call.
C16_SemaphoreOrdering ==
    /\ \A m \in ev.submits :
          m.blit => /\ "imageAvailableSemaphore" \in m.waits
                    /\ "renderFinishedSemaphore" \in m.signals
    /\ \A p \in ev.presents :
          "renderFinishedSemaphore" \in p.waits /\ p.submitted

\* C17: every command is recorded into commandBuffers[commandBufferCount - 1]
\* with commandBufferCount >= 1 and that command buffer in the recording state.
C17_RecordIntoCurrentRecordingBuffer ==
    \A c \in ev.records :
        c.commandBufferCount >= 1 /\ c.state = "recording"

\* C18: when UpdateRenderPass has begun the next render pass, every clear
\* that VULKAN_Clear was asked for while no pass was active, and that has an
\* attachment to clear, has been applied.
C18_PendingClearApplied ==
    ev.passBegin.returned /\ ~gpu.crashed =>
        \A o \in ev.passBegin.requested :
            o = "TARGET" \/ renderer.depthStencilAttachmentActive = 1 =>
                o \in ev.passBegin.cleared

(***************************************************************************)
(* Properties of the resource binding tracker                              *)
(***************************************************************************)
\* the slots BindResources walks for the frame in flight
WalkedSlots ==
    LET k == renderer.currentSwapChainIndex IN
    {k * MAX_VERTEXTEXTURE_SAMPLERS + i : i \in 0..(MAX_VERTEXTEXTURE_SAMPLERS - 1)}
        \cup {k * MAX_TEXTURE_SAMPLERS + i : i \in 0..(MAX_TEXTURE_SAMPLERS - 1)}

\* C19: of consecutive invocations of BindResources with no state change in
\* between, only the first stages texture / sampler descriptor writes, and
\* after it every needsUpdate flag of the walked slots is 0 (stated for the
\* states in which those flags have been written at all).
C19_DirtyFlagsConverge ==
    (\A i \in WalkedSlots : /\ renderer.textureNeedsUpdate[i] # Uninit
                            /\ renderer.samplerNeedsUpdate[i] # Uninit) =>
        \A uniforms \in UniformBuffers, junk \in BOOLEAN, ub \in UBOutcomes :
            LET a == BindResources(Start, uniforms, junk, "none", ub)
                b == BindResources(a, uniforms, junk, "none", ub)
            IN
            ~b.g.crashed =>
                /\ \A i \in WalkedSlots : /\ a.r.textureNeedsUpdate[i] = 0
                                          /\ a.r.samplerNeedsUpdate[i] = 0
                /\ \A n \in 1..Len(b.e.staged) : b.e.staged[n].type # "sampler"

\* C20: when BeginRenderPass returns, every bound texture and sampler slot of
\* the frame in flight has its needsUpdate flag set, and the last-draw
\* uniform buffer and vertex buffer caches of that frame hold no buffer.
C20_PassBeginMarksSlots ==
    ev.passBegin.returned =>
        ev.passBegin.slotsMarked /\ ev.passBegin.ldCleared

(***************************************************************************)
(* Properties of error handling, liveness and teardown                     *)
(***************************************************************************)
\* the latest VULKAN_BeginFrame of the call got no swapchain image
AcquireFailed == /\ ev.frameSteps # <<>>
                 /\ ev.frameSteps[Len(ev.frameSteps)] = "vkAcquireNextImageKHR"

\* C21: when the image acquisition of VULKAN_BeginFrame fails, the call
\* that invoked it, VULKAN_SwapBuffers included, submits no command buffer
\* and issues no present.
C21_FailedAcquireAbandonsFrame ==
    AcquireFailed => ev.submits = {} /\ ev.presents = {}

\* the VULKAN_BeginFrame that follows the call starts a frame: it waits for
\* the fence and resets it, resets the pool, acquires an image and zeroes
\* commandBufferCount
NextFrameIsFresh ==
    LET t == BeginFrame(Start, "none") IN
    /\ t.e.frameSteps = <<"vkWaitForFences", "vkResetFences", "vkResetCommandPool",
                          "vkAcquireNextImageKHR", "commandBufferCount">>
    /\ t.r.frameInProgress = 1
    /\ t.r.commandBufferCount = 0

\* C22: when vkQueueSubmit or vkQueuePresentKHR fails in VULKAN_SwapBuffers,
\* the call returns with frameInProgress = 0 and the next VULKAN_BeginFrame
\* starts a fresh frame.
C22_RetryAfterQueueFailure ==
    ev.queueFailure # "none" =>
        renderer.frameInProgress = 0 /\ NextFrameIsFresh

\* C23: the GPU finishing every submitted batch, every VULKAN_BeginFrame
\* returns: a call blocked in its fence wait (the fence unsignaled and no
\* submission pending that signals it) does not stay blocked.
C23_BeginFrameReturns == gpu.hung ~> ~gpu.hung

\* the native objects teardown has to have destroyed
Destroyable ==
    {[kind |-> "pipeline", id |-> p.value] : p \in renderer.pipelineHashMap}
        \cup {[kind |-> "renderPass", id |-> p.value] : p \in renderer.renderPassHashMap}
        \cup {[kind |-> "framebuffer", id |-> p.value] : p \in renderer.framebufferHashMap}
        \cup {[kind |-> "sampler", id |-> p.value] : p \in renderer.samplerStateHashMap}
        \cup {[kind |-> "buffer", id |-> buffers.obj[buffers.list[i]].handle] :
                 i \in 1..Len(buffers.list)}

\* C24: when VULKAN_DestroyDevice has returned, the native object of every
\* entry of the pipeline, render pass, framebuffer and sampler caches and
\* the native buffer of every buffer of the renderer's list has been
\* destroyed, and no native object was destroyed twice.
C24_TeardownDestroysEverythingOnce ==
    ev.teardown /\ gpu.ub = {} =>
        /\ \A n \in Destroyable : n \in gpu.destroyedNatives
        /\ gpu.destroyedTwice = {}

\* C25: a buffer the caller has disposed of, through AddDisposeVertexBuffer
\* or AddDisposeIndexBuffer, is no longer in the renderer's buffer list (so
\* no later Stall or teardown visits it) and its native buffer has been
\* destroyed exactly once.
C25_DisposedBufferDestroyedAndUnlinked ==
    \A id \in buffers.disposed :
        /\ \A i \in 1..Len(buffers.list) : buffers.list[i] # id
        /\ [kind |-> "buffer", id |-> buffers.obj[id].handle] \in gpu.destroyedNatives
        /\ [kind |-> "buffer", id |-> buffers.obj[id].handle] \notin gpu.destroyedTwice

\* C26: in every reachable state a render pass in progress lies inside a
\* frame in progress, whatever calls were made and whichever native call
\* failed, the image acquisition included.
C26_PassInsideFrame ==
    renderer.renderPassInProgress = 1 => renderer.frameInProgress = 1

\* C27: when Stall has returned and none of its native calls failed, no
\* render pass is in progress, the command buffers were submitted and the
\* queue waited idle, every buffer of the list has internalOffset,
\* boundThisFrame and prevDataLength 0, commandBufferCount = 1 with that
\* command buffer recording, and needNewRenderPass = 1.
C27_StallLeavesFreshCommandBuffer ==
    ev.stalled.returned /\ ~ev.stalled.error =>
        /\ ev.stalled.renderPassInProgress = 0
        /\ ev.stalled.submitted /\ ev.stalled.idle
        /\ ev.stalled.buffersReset
        /\ ev.stalled.commandBufferCount = 1
        /\ ev.stalled.state = "recording"
        /\ ev.stalled.needNewRenderPass = 1

\* C28: a VULKAN_BeginFrame that starts a frame returns with
\* commandBufferCount = 0, in whatever reachable state it is called and
\* whether or not its acquisition is the one that fails, and no step ever
\* lowers commandBufferCapacity.
C28_CountResetCapacityGrows ==
    /\ [](Running =>
              \A fail \in BeginFrameOutcomes :
                  LET t == BeginFrame(Start, fail) IN
                  "started" \in t.e.beginFrames => t.r.commandBufferCount = 0)
    /\ [][renderer'.commandBufferCapacity >= renderer.commandBufferCapacity]_vars

\* a frame was started after a frame in which the array of command buffers
\* had grown
C28_Witness ==
    /\ "started" \in ev.beginFrames
    /\ ev.frameSteps[Len(ev.frameSteps)] = "commandBufferCount"
    /\ renderer.commandBufferCount = 0
    /\ renderer.commandBufferCapacity > 1

UserBuffers == {renderer.userVertexBuffer, renderer.userIndexBuffer} \ {NULL}

C31_RasterizerChangeRebinds ==
    Running =>
        \A rasterizerState \in RasterizerStates, ub \in UBOutcomes :
            LET t == ApplyRasterizerState(Start, rasterizerState, "none", ub) IN
            ~t.g.crashed =>
                /\ t.r.rasterizerState = rasterizerState
                /\ rasterizerState # renderer.rasterizerState =>
                       /\ t.e.fetch.called
                       /\ t.r.currentPipelineHash = GetPipelineHash(t)

\* the slots the vertex and the fragment loop of BindResources examine for
\* frame index k
VertSlots(k) ==
    {k * MAX_VERTEXTEXTURE_SAMPLERS + i : i \in 0..(MAX_VERTEXTEXTURE_SAMPLERS - 1)}
FragSlots(k) ==
    {k * MAX_TEXTURE_SAMPLERS + i : i \in 0..(MAX_TEXTURE_SAMPLERS - 1)}

\* the slots whose needsUpdate flags differ between two worlds
Flagged(s, t) ==
    {j \in DOMAIN s.r.textureNeedsUpdate :
        \/ t.r.textureNeedsUpdate[j] # s.r.textureNeedsUpdate[j]
        \/ t.r.samplerNeedsUpdate[j] # s.r.samplerNeedsUpdate[j]}

\* C32: a slot whose needsUpdate flag VerifySampler sets is a slot that
\* BeginRenderPass re-marks and that BindResources examines for the current
\* frame index; BindResources clears the flags of the slots it stages; and
\* the slots of the vertex and the fragment samplers, and of different frame
\* indices, do not overlap.
C32_TrackerSlotsAgree ==
    /\ \A index \in SamplerIndices, texture \in TextureArguments, junk \in BOOLEAN :
          \A j \in Flagged(Start,
                           VerifySampler(Start, index, texture, 1, junk, "none")) :
              /\ j \in SamplerSlice(Start)
              /\ j \in VertSlots(renderer.currentSwapChainIndex)
                        \cup FragSlots(renderer.currentSwapChainIndex)
    /\ \A uniforms \in UniformBuffers, junk \in BOOLEAN, ub \in UBOutcomes :
          LET b == BindResources(Start, uniforms, junk, "none", ub) IN
          ~b.g.crashed =>
              \A n \in 1..Len(b.e.staged) :
                  b.e.staged[n].type = "sampler" =>
                      /\ b.r.textureNeedsUpdate[b.e.staged[n].element] = 0
                      /\ b.r.samplerNeedsUpdate[b.e.staged[n].element] = 0
    /\ \A k \in 0..(SwapChainImageCount - 1) :
          /\ VertSlots(k) \cap FragSlots(k) = {}
          /\ \A l \in 0..(SwapChainImageCount - 1) :
                k # l => (VertSlots(k) \cup FragSlots(k))
                             \cap (VertSlots(l) \cup FragSlots(l)) = {}

\* C33: every element of commandBuffers below commandBufferCount holds a
\* handle obtained from vkAllocateCommandBuffers.
C33_CountedCommandBuffersAllocated ==
    \A i \in 1..renderer.commandBufferCount :
        /\ i <= Len(gpu.commandBuffers)
        /\ gpu.commandBuffers[i].allocated

\* C34: every command buffer handed to vkQueueSubmit, by VULKAN_SwapBuffers
\* or by Stall, is in the executable state when it is submitted.
C34_SubmittedBuffersExecutable ==
    \A m \in ev.submits : m.states \subseteq {"executable"}

\* C35: no command buffer is handed to vkQueueSubmit twice unless its pool
\* was reset, or it was begun again, between the two submissions.
C35_NoResubmission ==
    \A m \in ev.submits : ~m.again

\* C36: every vkQueueSubmit that is given renderQueueFence is made while the
\* fence is unsignaled and no earlier submission that was given the fence is
\* still to signal it.
C36_FenceFreeAtSubmission ==
    \A m \in ev.submits : m.fence = "unsignaled" /\ ~m.fenceArmed

\* C37: no native buffer is destroyed while a command that references it is
\* recorded and not yet executed, or submitted and not yet completed.
C37_NoDestroyWhileReferenced ==
    \A p \in gpu.pendingReads :
        [kind |-> "buffer", id |-> p.handle] \notin gpu.destroyedNatives

\* C38: every draw is recorded while renderPassInProgress is 1 and after a
\* vkCmdBindPipeline with a non-null pipeline was recorded in the command
\* buffer that receives the draw.
C38_DrawInsidePassWithPipeline ==
    ev.drew =>
        /\ renderer.renderPassInProgress = 1
        /\ gpu.cbPipelineBound
        /\ gpu.cbPipeline # NULL

\* C39: the key FetchRenderPass computed before a cache miss, under which it
\* stores the render pass, is the key GetRenderPassHash gives after the
\* creation path, and a framebuffer is cached under the key of the render
\* pass it was created with.
C39_RenderPassKeyStable ==
    /\ \A p \in gpu.nativeRenderPasses : p.key = p.attachmentCount
    /\ \A f \in gpu.nativeFramebuffers : \A p \in gpu.nativeRenderPasses :
           f.renderPass = p.id => f.key = p.key

\* C40: the allocation behind the contents of every buffer is at least
\* internalBufferSize bytes, and no write into contents went past the end
\* of the allocation.
C40_ContentsWithinAllocation ==
    /\ \A i \in 1..Len(buffers.list) :
           buffers.obj[buffers.list[i]].alloc
               >= buffers.obj[buffers.list[i]].internalBufferSize
    /\ "contents" \notin gpu.ub

====
